---- MODULE Spec2Model ----
(***************************************************************************)
(* A model of the schema toolkit of js-shared: the Member tree constructor *)
(* (schema/Member.js, also embedded in schema/Schema.js), the document     *)
(* loader with its recursive dependency loading and the dependency closure *)
(* expansion (schema/Schema.js).                                           *)
(*                                                                         *)
(* It also covers the version check of schema documents, the XML, JSON and *)
(* struct converters (xml.js, schema/converters), the Range class and the  *)
(* event counting of the Log class (Log.js).                               *)
(*                                                                         *)
(* The specifications of the module share its variables:                   *)
(*   Spec            the registry: Schema.load over a small file system    *)
(*   SpecMember      the Member constructor and parse on bounded records   *)
(*   SpecVersion     the version check of a schema document                *)
(*   SpecXml         toObj of the two XML converters                       *)
(*   SpecRoundTrip   fromObj, toObj, fromObj of the three converters       *)
(*   SpecBinaryType  getBinaryType over bounded type definitions           *)
(*   SpecStructType  getStructType over bounded class descriptors          *)
(*   SpecStructWalk  getStructType as steps over descriptors with identity *)
(*   SpecRange       two Range objects under the calls of their interface  *)
(*   SpecLog         a Log instance, its write callbacks and shutdown      *)
(***************************************************************************)
EXTENDS Integers, Sequences, FiniteSets, TLC

VARIABLES
    fs,          \* the schema files on disk: name -> [kind, deps, members]
    documents,   \* Schema.documents: name -> registered Schema object
    order,       \* insertion order of the keys of Schema.documents
    SchemaFile,  \* Schema.file: the root document of the running Schema.load
    stack,       \* call stack of Schema.prototype.load / init frames
    outcome,     \* how the last Schema.load ended
    loads,       \* number of Schema.load calls made so far
    hist,        \* history of completed calls (used by the properties only)
    loadCalls,   \* calls of Schema.prototype.load per name in the running Schema.load
    raw,         \* SpecMember: the raw record handed to the constructor
    built,       \* SpecMember: what the constructor produced
    parsed,      \* SpecMember: the level and the outcome of built.parse(level, cb)
    version,     \* SpecVersion: the version property of a schema document
    verdict,     \* SpecVersion: what isValid and init made of it
    xml,         \* SpecXml: the XML text handed to toObj, as its elements
    obj_class,   \* SpecXml: the object-class descriptor handed to toObj
    xmlResult,   \* SpecXml: which toObj ran and what it produced
    tripObj,     \* SpecRoundTrip: the object handed to fromObj
    trip,        \* SpecRoundTrip: fromObj(o) and fromObj(toObj(fromObj(o)))
    type_def,    \* SpecBinaryType: the type definition handed to getBinaryType
    codec,       \* SpecBinaryType: what getBinaryType made of it
    struct_class,\* SpecStructType: the descriptor handed to getStructType
    layout,      \* SpecStructType: what getStructType made of it
    heap,        \* SpecStructWalk: the class descriptors and the layout objects
    walk,        \* SpecStructWalk: the running getStructType calls and their results
    ranges,      \* SpecRange: the Range objects and their interval objects
    log          \* SpecLog: a Log instance, its queue and its events

schemaVars == <<fs, documents, order, SchemaFile, stack, outcome, loads, hist, loadCalls>>
memberVars == <<raw, built, parsed>>
\* the variables of the specifications of single functions
versionVars == <<version, verdict>>
xmlVars == <<xml, obj_class, xmlResult>>
tripVars == <<tripObj, trip>>
structVars == <<type_def, codec, struct_class, layout>>
walkVars == <<heap, walk>>
pureVars ==
    <<raw, built, parsed, version, verdict, xml, obj_class, xmlResult, tripObj, trip,
      type_def, codec, struct_class, layout, heap, walk, ranges, log>>
vars == <<schemaVars, pureVars>>

-----------------------------------------------------------------------------
(* Bounds *)

MaxChildren == 2     \* longest members array of a raw struct/union
MaxValues == 2       \* longest values array of a raw enum
MaxLoads == 2        \* Schema.load calls in one behaviour
StackLimit == 5      \* frames of load/init the runtime stack can hold
MaxParts == 3        \* most components of a version
MaxOccurs == 2       \* most occurrences of one child name in an XML element
MaxAttrs == 2        \* most attributes of a descriptor handed to getStructType
MaxClasses == 2      \* class descriptors on the heap
MaxRefs == 2         \* most references of a descriptor on the heap
MaxCalls == 2        \* calls of getStructType from outside
MaxPoint == 3        \* the ends of intervals are 0, 2, .., 2 * MaxPoint
MaxOps == 4          \* calls that change a Range
MaxLogCalls == 3     \* logging calls on the Log
MaxShutdowns == 2    \* calls of shutdown on the Log

-----------------------------------------------------------------------------
(* JavaScript values that occur in raw schema records *)

Undefined == "<undefined>"

Num(n) == [kind |-> "num", n |-> n]
Str(s) == [kind |-> "str", s |-> s]
NaN == [kind |-> "nan"]
Undef == [kind |-> "undef"]
Entry(n, v) == [kind |-> "entry", name |-> n, value |-> v]

\* the strings of the model that spell a number, with the number they spell
NumericStrings ==
    ("0" :> 0) @@ ("1" :> 1) @@ ("2" :> 2) @@ ("5" :> 5) @@ ("7" :> 7) @@
    ("99" :> 99) @@ ("" :> 0) @@ ("-1" :> -1)

\* Number(x): ToNumber of a JavaScript value; an object that is not a
\* wrapper converts through "[object Object]" to NaN
ToNumber(x) ==
    CASE x.kind = "num" -> x
      [] x.kind = "str" ->
            IF x.s \in DOMAIN NumericStrings THEN Num(NumericStrings[x.s]) ELSE NaN
      [] OTHER -> NaN

isNaN(x) == ToNumber(x).kind = "nan"

Truthy(s) == s # Undefined /\ s # ""

\* F applied to the value of x, with x evaluated once: the local `let v = x`
\* of the source
Bind(x, F(_)) == CHOOSE r \in {F(v) : v \in {x}} : TRUE

-----------------------------------------------------------------------------
(* The type catalog *)

types ==
    [int8   |-> [type |-> "Integer", size |-> 1, min |-> -1],
     int16  |-> [type |-> "Integer", size |-> 2, min |-> -1],
     int32  |-> [type |-> "Integer", size |-> 4, min |-> -1],
     int64  |-> [type |-> "Integer", size |-> 8, min |-> -1],
     uint8  |-> [type |-> "Integer", size |-> 1, min |-> 0],
     uint16 |-> [type |-> "Integer", size |-> 2, min |-> 0],
     uint32 |-> [type |-> "Integer", size |-> 4, min |-> 0],
     uint64 |-> [type |-> "Integer", size |-> 8, min |-> 0],
     float  |-> [type |-> "Numeric", size |-> 4, min |-> -1],
     double |-> [type |-> "Numeric", size |-> 8, min |-> -1],
     bool   |-> [type |-> "Boolean", size |-> 0, min |-> -1],
     string |-> [type |-> "Alpha", size |-> 0, min |-> -1],
     node   |-> [type |-> "Node", size |-> 0, min |-> -1]]

isPrimitive(t) ==
    t \in DOMAIN types /\ types[t].type \in {"Integer", "Numeric", "Boolean", "Alpha"}

isNumeric(t) ==
    t \in DOMAIN types /\ types[t].type \in {"Integer", "Numeric"}

isInline(t) == t \in {"struct", "union", "enum"}

validName(name) == TRUE

-----------------------------------------------------------------------------
(* Raw member records, as they come out of the schema file *)

RawMember(t, n) ==
    [type |-> t, name |-> n, params |-> <<>>,
     hasMembers |-> FALSE, members |-> <<>>,
     value_type |-> Undefined, hasValues |-> FALSE, values |-> <<>>,
     template |-> Undefined]

RawStruct(t, n, ms) ==
    [RawMember(t, n) EXCEPT !.hasMembers = TRUE, !.members = ms]

RawEnum(n, vt, vs) ==
    [RawMember("enum", n) EXCEPT !.value_type = vt, !.hasValues = TRUE, !.values = vs]

RawArray(n, vt) ==
    [RawMember("array", n) EXCEPT !.value_type = vt]

RawFunction(n, ps) ==
    [RawMember("function", n) EXCEPT !.params = ps]

\* a raw record that declares a template
WithTemplate(data, t) == [data EXCEPT !.template = t]

-----------------------------------------------------------------------------
(* Names *)

RECURSIVE paramPostfix(_, _, _)
paramPostfix(params, i, postfix) ==
    IF i > Len(params) THEN postfix
    ELSE paramPostfix(params, i + 1,
            (IF postfix # "" THEN postfix \o ", " ELSE postfix) \o params[i])

\* index is the zero-based position among the siblings
getName(index, data) ==
    LET postfix == IF data.type = "function"
                   THEN "(" \o paramPostfix(data.params, 1, "") \o ")"
                   ELSE ""
    IN  IF Truthy(data.name) THEN data.name \o postfix
        ELSE "<anonymous>[" \o ToString(index) \o "]" \o postfix

\* parent is [null, fullName, path]: fullName is parent.fullName()
\* a parent as the constructor of a child sees it; chain holds the template
\* properties of the parent and of its ancestors, the nearest first
NullParent == [null |-> TRUE, fullName |-> "", path |-> <<>>, chain |-> <<>>]

getFullName(parent, index, data) ==
    IF ~parent.null THEN parent.fullName \o "::" \o getName(index, data)
    ELSE getName(index, data)

-----------------------------------------------------------------------------
(* Validation of one raw record *)

Fail(e) == [ok |-> FALSE, err |-> e]

validateNameErr(data) ==
    IF data.type # "struct" /\ data.type # "union" /\ data.name = Undefined
    THEN "no name"
    ELSE IF data.name # Undefined /\ ~validName(data.name)
    THEN "invalid name"
    ELSE ""

validateStructErr(data) ==
    IF ~data.hasMembers \/ Len(data.members) = 0 THEN "no members" ELSE ""

\* the value the loop leaves in data.values[i]: Number(v) of the entry v
enumStoredValue(v) == ToNumber(v)

\* returns [ok, err, data]: data is the record as validateEnum leaves it
validateEnum(data) ==
    LET vt == IF ~Truthy(data.value_type) THEN "int32" ELSE data.value_type
        d1 == [data EXCEPT !.value_type = vt]
        badEntry(v) ==
            \/ v.name = Undefined
            \/ v.value.kind = "undef"
            \/ ~validName(v.name)
            \/ (isNumeric(vt) /\ isNaN(v.value))
    IN  IF ~isPrimitive(vt)
        THEN [ok |-> FALSE, err |-> "non-primitive value type", data |-> d1]
        ELSE IF ~data.hasValues \/ Len(data.values) = 0
        THEN [ok |-> FALSE, err |-> "no values", data |-> d1]
        ELSE IF \E i \in 1..Len(data.values) : badEntry(data.values[i])
        THEN [ok |-> FALSE, err |-> "invalid values", data |-> d1]
        ELSE [ok |-> TRUE, err |-> "",
              data |-> [d1 EXCEPT !.values =
                          [i \in 1..Len(data.values) |-> enumStoredValue(data.values[i])]]]

validateArrayErr(data) ==
    IF ~Truthy(data.value_type) \/ data.value_type \notin DOMAIN types
    THEN "invalid array" ELSE ""

validateMember(parent, index, data) ==
    IF ~Truthy(data.type)
    THEN [ok |-> FALSE, err |-> "missing type", data |-> data]
    ELSE IF validateNameErr(data) # ""
    THEN [ok |-> FALSE, err |-> validateNameErr(data), data |-> data]
    ELSE CASE data.type \in {"struct", "union"} ->
                [ok |-> validateStructErr(data) = "", err |-> validateStructErr(data),
                 data |-> data]
           [] data.type = "enum" -> validateEnum(data)
           [] data.type = "array" ->
                [ok |-> validateArrayErr(data) = "", err |-> validateArrayErr(data),
                 data |-> data]
           [] OTHER -> [ok |-> TRUE, err |-> "", data |-> data]

-----------------------------------------------------------------------------
(* The Member constructor *)

\* a member_map is a function from full names to [path, type] of the member
EmptyMap == [k \in {} |-> [path |-> <<>>, type |-> ""]]

MapPut(map, k, v) == (k :> v) @@ map

MemberRef(m) == [path |-> m.path, type |-> m.type]

\* the keys of mem.member_map that mapMembers copies into the parent's map
mapMembersKept(mem) ==
    {mm \in DOMAIN mem.member_map :
        ~(~isInline(mem.member_map[mm].type) /\ isInline(mem.type))}

mapMembers(member_map, mem) ==
    LET kept == mapMembersKept(mem)
    IN  [mm \in kept |-> mem.member_map[mm]] @@ MapPut(member_map, mem.fullName, MemberRef(mem))

\* the name the constructor looks up before it builds child i of self
duplicateKey(parent, self, i, m) == getFullName(parent, i, m)

def_templates ==
    [file |-> "file.template", namespace |-> "namespace.template",
     struct |-> "struct.template", union |-> "union.template",
     enum |-> "enum.template"]

\* member.schema.templates[type]
schemaTemplate(type) ==
    IF type \in DOMAIN def_templates THEN def_templates[type] ELSE Undefined

RECURSIVE getTemplateForType(_, _)
\* chain[1] is member.template, Tail(chain) the template properties of
\* member.parent and above
getTemplateForType(chain, type) ==
    IF Truthy(chain[1]) THEN chain[1]
    ELSE IF Len(chain) > 1 THEN getTemplateForType(Tail(chain), type)
    ELSE schemaTemplate(type)

RECURSIVE Member(_, _, _)
RECURSIVE buildMembers(_, _, _, _, _)

\* the forEach over this.members: acc is [members, member_map]
buildMembers(parent, self, ms, i, acc) ==
    IF i > Len(ms) THEN [ok |-> TRUE, err |-> "", members |-> acc.members,
                         member_map |-> acc.member_map]
    ELSE IF duplicateKey(parent, self, i - 1, ms[i]) \in DOMAIN acc.member_map
    THEN [ok |-> FALSE, err |-> "duplicate member", members |-> acc.members,
          member_map |-> acc.member_map]
    ELSE Bind(Member(self, i - 1, ms[i]), LAMBDA child :
            IF ~child.ok
            THEN [ok |-> FALSE, err |-> child.err, members |-> acc.members,
                  member_map |-> acc.member_map]
            ELSE Bind([members |-> Append(acc.members, child.m),
                       member_map |-> mapMembers(acc.member_map, child.m)],
                      LAMBDA next : buildMembers(parent, self, ms, i + 1, next)))

\* the constructor after validateMember: v is what validateMember returned
constructMember(parent, index, v) ==
    LET d == v.data
        full == getFullName(parent, index, d)
        template == getTemplateForType(<<d.template>> \o parent.chain, d.type)
        self == [null |-> FALSE, fullName |-> full,
                 path |-> Append(parent.path, index),
                 chain |-> <<template>> \o parent.chain]
    IN  Bind(IF d.hasMembers
             THEN buildMembers(parent, self, d.members, 1,
                     [members |-> <<>>, member_map |-> EmptyMap])
             ELSE [ok |-> TRUE, err |-> "", members |-> <<>>,
                   member_map |-> EmptyMap],
             LAMBDA kids :
                IF ~kids.ok THEN Fail(kids.err)
                ELSE [ok |-> TRUE, err |-> "",
                      m |-> [type |-> d.type, name |-> d.name, index |-> index,
                             fullName |-> full, path |-> self.path,
                             hasMembers |-> d.hasMembers, members |-> kids.members,
                             member_map |-> kids.member_map,
                             value_type |-> d.value_type, values |-> d.values,
                             template |-> template]])

Member(parent, index, data) ==
    Bind(validateMember(parent, index, data), LAMBDA v :
        IF ~v.ok THEN Fail(v.err) ELSE constructMember(parent, index, v))

-----------------------------------------------------------------------------
(* Member.prototype.parse *)

RECURSIVE parse(_, _)
RECURSIVE parseEach(_, _, _, _)

\* this.members.forEach(m => m.parse(level, cb)): calls are the calls of cb
\* made so far; an exception ends the traversal
parseEach(ms, i, level, calls) ==
    IF i > Len(ms) THEN [ok |-> TRUE, calls |-> calls]
    ELSE Bind(parse(ms[i], level), LAMBDA r :
            IF ~r.ok THEN [ok |-> FALSE, calls |-> calls \o r.calls]
            ELSE Bind(calls \o r.calls, LAMBDA next : parseEach(ms, i + 1, level, next)))

\* cb(this, level), then the children; no type of common.types has
\* type === Object, so nothing is emitted; this.members is undefined on a
\* member whose raw record has no members array, and forEach of it throws
parse(m, level) ==
    LET first == <<[member |-> m.path, level |-> level]>>
    IN  IF ~m.hasMembers THEN [ok |-> FALSE, calls |-> first]
        ELSE parseEach(m.members, 1, level + 1, first)

-----------------------------------------------------------------------------
(* Schema documents on disk *)

DocSeq == <<"a.json", "b.json", "c.json">>
Docs == {DocSeq[i] : i \in 1..Len(DocSeq)}

\* the elements of S in directory order
SortedSeq(S) == SelectSeq(DocSeq, LAMBDA d : d \in S)

SeqSet(q) == {q[i] : i \in 1..Len(q)}

\* a version string, split at the dots
VersionString(parts) == [isString |-> TRUE, parts |-> [i \in 1..Len(parts) |-> Str(parts[i])]]
NoVersion == [isString |-> FALSE, parts |-> <<>>]

doc_version == [major |-> 1, minor |-> 0, revision |-> 0]

\* a check of the major number only
isValid_majorOnly(v) ==
    /\ v # NoVersion
    /\ Len(v.parts) >= 2
    /\ ToNumber(v.parts[1]) = Num(doc_version.major)

\* doc_version.isValid
isValid(v) ==
    IF v = NoVersion THEN FALSE
    ELSE LET valid_version == ~v.isString \/ \A i \in 1..Len(v.parts) : ~isNaN(v.parts[i])
             nums == IF v.isString
                     THEN [i \in 1..Len(v.parts) |-> ToNumber(v.parts[i])]
                     ELSE v.parts
         IN  IF ~valid_version \/ Len(nums) < 2 THEN FALSE
             ELSE /\ nums[1] = Num(doc_version.major)
                  /\ ToNumber(nums[2]).kind = "num"
                  /\ ToNumber(nums[2]).n <= doc_version.minor

validateSchema(doc) == isValid(doc.version)

\* A file is decided when the program first reads it: fs[d] is Unread until
\* then, OkHeader once only its existence, its extension and its version have
\* been read (isValidDocument), and the whole file after load has required it.
MissingFile ==
    [known |-> "full", kind |-> "missing", version |-> NoVersion, deps |-> <<>>,
     members |-> <<>>]
GarbageFile ==
    [known |-> "full", kind |-> "garbage", version |-> NoVersion, deps |-> <<>>,
     members |-> <<>>]
JsonFile(v, deps, ms) ==
    [known |-> "full", kind |-> "json", version |-> v, deps |-> deps, members |-> ms]
Unread ==
    [known |-> "none", kind |-> "unread", version |-> NoVersion, deps |-> <<>>,
     members |-> <<>>]

EmptyBody == <<>>
GoodBody ==
    <<RawStruct("struct", "Point", <<RawMember("int32", "x"), RawMember("int32", "y")>>)>>
BadBody == <<RawMember(Undefined, "z")>>

SupportedVersion == VersionString(<<"1", "0", "7">>)

\* the files isValidDocument rejects, all there is to know about them
RejectedFiles ==
    {GarbageFile, JsonFile(VersionString(<<"2", "0", "0">>), <<>>, GoodBody)}

\* the files isValidDocument accepts
AcceptedFiles ==
    {JsonFile(SupportedVersion, <<>>, BadBody)}
    \cup {JsonFile(SupportedVersion, SortedSeq(S), b) :
            S \in SUBSET Docs, b \in {EmptyBody, GoodBody}}

FileChoices == {MissingFile} \cup RejectedFiles \cup AcceptedFiles

\* an accepted file of which only the header has been read
OkHeader == [JsonFile(SupportedVersion, <<>>, <<>>) EXCEPT !.known = "header"]

\* what a read of the header of d (glob, isValidDocument) can find
headerChoices(files, d) ==
    IF files[d].known = "none"
    THEN {MissingFile, OkHeader} \cup RejectedFiles
    ELSE {files[d]}

\* what a read of the whole of d (existsSync, require) can find
fileChoices(files, d) ==
    CASE files[d].known = "none" -> FileChoices
      [] files[d].known = "header" -> AcceptedFiles
      [] OTHER -> {files[d]}

RECURSIVE readHeaders(_, _, _)
\* the file systems that fill in the headers of the files names[i..]
readHeaders(fileSystems, names, i) ==
    IF i > Len(names) THEN fileSystems
    ELSE readHeaders(UNION {{[f EXCEPT ![names[i]] = h] : h \in headerChoices(f, names[i])} :
                               f \in fileSystems},
                     names, i + 1)

\* Schema.isValidDocument: a .json file that parses and passes validateSchema
isValidDocument(files, d) ==
    /\ files[d].kind = "json"
    /\ validateSchema(files[d])

\* glob.sync of a plain file name: the file when it exists
globSync(files, dep) == IF files[dep].kind # "missing" THEN <<dep>> ELSE <<>>

-----------------------------------------------------------------------------
(* Schema.prototype.init *)

RECURSIVE initMembers(_, _, _)
\* the forEach over this.members of init: acc is [members, member_map]
initMembers(ms, i, acc) ==
    IF i > Len(ms) THEN [ok |-> TRUE, err |-> "", members |-> acc.members,
                         member_map |-> acc.member_map]
    ELSE Bind(Member(NullParent, i - 1, ms[i]), LAMBDA top :
            IF ~top.ok
            THEN [ok |-> FALSE, err |-> top.err, members |-> acc.members,
                  member_map |-> acc.member_map]
            ELSE Bind([members |-> Append(acc.members, top.m),
                       member_map |-> top.m.member_map @@ acc.member_map],
                      LAMBDA next : initMembers(ms, i + 1, next)))

\* the file init leaves out of every dependency list
s_file(root, doc_name) == root

RECURSIVE resolveDependencies(_, _, _, _, _, _)
\* lines 251-270: exp_deps from the declared dependencies
resolveDependencies(files, root, doc_name, declared, i, exp_deps) ==
    IF i > Len(declared) THEN exp_deps
    ELSE LET found == globSync(files, declared[i])
             keep == SelectSeq(found, LAMBDA d :
                        /\ isValidDocument(files, d)
                        /\ d # s_file(root, doc_name)
                        /\ d \notin SeqSet(exp_deps))
         IN  Bind(exp_deps \o keep, LAMBDA next :
                resolveDependencies(files, root, doc_name, declared, i + 1, next))

\* init up to the point where the dependencies are loaded
initDocument(files, root, doc_name) ==
    LET doc == files[doc_name] IN
    IF doc.kind = "garbage" THEN [ok |-> FALSE, err |-> "parse error"]
    ELSE IF ~validateSchema(doc) THEN [ok |-> FALSE, err |-> "unsupported version"]
    ELSE Bind(initMembers(doc.members, 1, [members |-> <<>>, member_map |-> EmptyMap]),
              LAMBDA ms :
                IF ~ms.ok THEN [ok |-> FALSE, err |-> ms.err]
                ELSE Bind(resolveDependencies(files, root, doc_name, doc.deps, 1, <<>>),
                          LAMBDA deps :
                            [ok |-> TRUE, err |-> "",
                             this |-> [members |-> ms.members,
                                       member_map |-> ms.member_map,
                                       dependencies |-> deps, declared |-> deps,
                                       inited |-> FALSE]]))

\* what a lookup of an absent key yields: undefined
NotFound == [path |-> <<>>, type |-> Undefined]

findMember(schema, m_name) ==
    IF m_name \in DOMAIN schema.member_map THEN schema.member_map[m_name] ELSE NotFound

-----------------------------------------------------------------------------
(* Schema.load: the dependency closure *)

RECURSIVE addAll(_, _, _)
\* applyDeps / addDep: acc is [deps, dep_map]
addAll(acc, names, i) ==
    IF i > Len(names) THEN acc
    ELSE IF names[i] \in acc.dep_map THEN addAll(acc, names, i + 1)
    ELSE Bind([deps |-> Append(acc.deps, names[i]),
               dep_map |-> acc.dep_map \cup {names[i]}],
              LAMBDA next : addAll(next, names, i + 1))

\* applyDeps with the test of addDep inverted: only names already present are pushed
applyDeps_inverted(acc, names) ==
    [deps |-> acc.deps \o SelectSeq(names, LAMBDA n : n \in acc.dep_map),
     dep_map |-> acc.dep_map]

applyDeps(acc, names) == addAll(acc, names, 1)

RECURSIVE expandDependencies(_, _, _)
RECURSIVE expandLoop(_, _, _, _, _, _)

\* fuel is the number of nested calls the stack still holds
expandDependencies(docs, name, fuel) ==
    IF fuel = 0 THEN [ok |-> FALSE, docs |-> docs]
    ELSE expandLoop(docs, name, 1, Len(docs[name].dependencies),
                    SeqSet(docs[name].dependencies), fuel)

expandLoop(docs, name, k, n, dep_map, fuel) ==
    IF k > n THEN [ok |-> TRUE, docs |-> docs]
    ELSE LET dep_name == docs[name].dependencies[k] IN
         IF dep_name \notin DOMAIN docs
         THEN expandLoop(docs, name, k + 1, n, dep_map, fuel)
         ELSE Bind(expandDependencies(docs, dep_name, fuel - 1), LAMBDA r :
                IF ~r.ok THEN r
                ELSE Bind(applyDeps([deps |-> r.docs[name].dependencies,
                                     dep_map |-> dep_map],
                                    r.docs[dep_name].dependencies),
                          LAMBDA a :
                            Bind([r.docs EXCEPT ![name].dependencies = a.deps],
                                 LAMBDA next :
                                    expandLoop(next, name, k + 1, n, a.dep_map, fuel))))

RECURSIVE expandAll(_, _, _, _)
\* the for-in over Schema.documents at the end of Schema.load
expandAll(docs, names, i, fuel) ==
    IF i > Len(names) THEN [ok |-> TRUE, docs |-> docs]
    ELSE Bind(expandDependencies(docs, names[i], fuel), LAMBDA r :
            IF ~r.ok THEN r ELSE expandAll(r.docs, names, i + 1, fuel))

-----------------------------------------------------------------------------
(* Objects, XML text and object-class descriptors of the converters *)

\* a JavaScript object: its own keys in insertion order, and their values
Obj(keys, val) == [kind |-> "obj", keys |-> keys, val |-> val]
List(items) == [kind |-> "list", items |-> items]
NoFields == [k \in {} |-> Undef]
EmptyObj == Obj(<<>>, NoFields)

ObjHas(o, k) == k \in DOMAIN o.val

\* o[k] = v
ObjPut(o, k, v) ==
    Obj(IF ObjHas(o, k) THEN o.keys ELSE Append(o.keys, k), (k :> v) @@ o.val)

\* truthiness of a value
TruthyValue(v) == ~(v.kind \in {"undef", "nan", "null"} \/ v = Str("") \/ v = Num(0))

\* XML text, element by element: <name attrs/>, <name>text</name> or
\* <name attrs> children </name>; attrs is an object of strings
EmptyTag(name, attrs) ==
    [form |-> "empty", name |-> name, attrs |-> attrs, children |-> <<>>, text |-> ""]
TextTag(name, text) ==
    [form |-> "text", name |-> name, attrs |-> EmptyObj, children |-> <<>>, text |-> text]
OpenTag(name, attrs, children) ==
    [form |-> "open", name |-> name, attrs |-> attrs, children |-> children, text |-> ""]

\* the strings of the model that xml-escape changes, with what it makes
EscapeTable == ("a&b" :> "a&amp;b")

\* escape(s) of xml-escape
escape(s) == IF s \in DOMAIN EscapeTable THEN EscapeTable[s] ELSE s

\* the text an XML parser reads out of an escaped attribute value
unescape(s) ==
    IF \E u \in DOMAIN EscapeTable : EscapeTable[u] = s
    THEN CHOOSE u \in DOMAIN EscapeTable : EscapeTable[u] = s
    ELSE s

unescapeAll(attrs) ==
    Obj(attrs.keys, [k \in DOMAIN attrs.val |-> Str(unescape(attrs.val[k].s))])

RECURSIVE xml2js(_)
RECURSIVE groupChildren(_, _, _)

\* the children of an element as xml2js hands them over: one array per
\* child name, the names in the order of their first occurrence
groupChildren(children, i, acc) ==
    IF i > Len(children) THEN acc
    ELSE LET k == children[i].name
             before == IF ObjHas(acc, k) THEN acc.val[k].items ELSE <<>>
         IN  Bind(ObjPut(acc, k, List(Append(before, xml2js(children[i])))),
                  LAMBDA next : groupChildren(children, i + 1, next))

\* what the parser of xml2js makes of one element (default options): the
\* text of an element without attributes and children, else an object with
\* the attributes under "$"
xml2js(node) ==
    IF node.attrs = EmptyObj /\ node.children = <<>> THEN Str(node.text)
    ELSE groupChildren(node.children, 1,
            IF node.attrs = EmptyObj THEN EmptyObj
            ELSE ObjPut(EmptyObj, "$", unescapeAll(node.attrs)))

\* an object-class descriptor; ref entries carry name, ref_class, is_container
NoClass == [given |-> FALSE, _name |-> Undefined, _attrs |-> NoFields, _refs |-> NoFields]
ObjClass(name, refs) ==
    [given |-> TRUE, _name |-> name, _attrs |-> NoFields, _refs |-> refs]
RefEntry(name, ref_class, is_container) ==
    [name |-> name, ref_class |-> ref_class, is_container |-> is_container]

\* common.def_class
def_class == ObjClass("Anonymous", NoFields)

\* def_obj_class of xml.js: it has no _name
def_obj_class == ObjClass(Undefined, NoFields)

\* the refs argument of parseChild: a map of entries, or undefined
NoRefs == [defined |-> FALSE, entries |-> NoFields]
RefsOf(entries) == [defined |-> TRUE, entries |-> entries]

\* refs[k]._refs: an entry has no _refs property of its own
entryRefs(entry) == NoRefs

-----------------------------------------------------------------------------
(* toObj of the XML converters *)

TypeError == [ok |-> FALSE, err |-> "TypeError", v |-> Undef]
Lowered(v) == [ok |-> TRUE, err |-> "", v |-> v]

RECURSIVE addAttrs(_, _, _)
\* obj[k] = attrs[k] for every attribute, from the i-th on
addAttrs(obj, attrs, i) ==
    IF i > Len(attrs.keys) THEN obj
    ELSE Bind(ObjPut(obj, attrs.keys[i], attrs.val[attrs.keys[i]]),
              LAMBDA next : addAttrs(next, attrs, i + 1))

RECURSIVE parseChild(_, _)
RECURSIVE parseKeys(_, _, _, _)
RECURSIVE parseItems(_, _, _, _)

\* the loop over elem[k] of two or more elements: res[k].push(parseChild(..))
parseItems(items, j, refs, acc) ==
    IF j > Len(items) THEN Lowered(List(acc))
    ELSE Bind(parseChild(items[j], refs), LAMBDA c :
            IF ~c.ok THEN c
            ELSE Bind(Append(acc, c.v), LAMBDA next :
                    parseItems(items, j + 1, refs, next)))

\* the for-in loop of parseChild over the keys of elem, from the i-th on
parseKeys(elem, refs, i, res) ==
    IF i > Len(elem.keys) THEN Lowered(res)
    ELSE LET k == elem.keys[i]
             e == elem.val[k]
             sub == IF k \in DOMAIN refs.entries
                    THEN entryRefs(refs.entries[k]) ELSE RefsOf(NoFields)
             is_container == k \in DOMAIN refs.entries /\ refs.entries[k].is_container
         IN  IF k = "$"
             THEN Bind(addAttrs(res, e, 1), LAMBDA next : parseKeys(elem, refs, i + 1, next))
             ELSE IF ~refs.defined THEN TypeError
             ELSE IF e.kind = "list" /\ Len(e.items) = 1
             THEN Bind(parseChild(e.items[1], sub), LAMBDA c :
                    IF ~c.ok THEN c
                    ELSE Bind(ObjPut(res, k, IF is_container THEN List(<<c.v>>) ELSE c.v),
                              LAMBDA next : parseKeys(elem, refs, i + 1, next)))
             ELSE IF e.kind = "list" /\ Len(e.items) > 1
             THEN IF ObjHas(res, k) /\ TruthyValue(res.val[k]) THEN TypeError
                  ELSE Bind(parseItems(e.items, 1, sub, <<>>), LAMBDA c :
                         IF ~c.ok THEN c
                         ELSE Bind(ObjPut(res, k, c.v),
                                   LAMBDA next : parseKeys(elem, refs, i + 1, next)))
             ELSE Bind(parseChild(e, sub), LAMBDA c :
                    IF ~c.ok THEN c
                    ELSE IF is_container THEN TypeError
                    ELSE Bind(ObjPut(res, k, c.v),
                              LAMBDA next : parseKeys(elem, refs, i + 1, next)))

parseChild(elem, refs) ==
    IF elem.kind = "str" THEN Lowered(elem)
    ELSE parseKeys(elem, refs, 1, EmptyObj)

\* the document xml2js hands to the callback: the root under its name
xmlDocument(text) == ObjPut(EmptyObj, text[1].name, xml2js(text[1]))

\* toObj of schema/converters/xml: the root check
rootMatches(root_name, name) == root_name = name

\* toObj of schema/converters/xml: text is the sequence of top-level
\* elements of the XML text; obj_class._name is set when it was not
toObj(text, given_class) ==
    LET class == IF ~given_class.given THEN def_class ELSE given_class
    IN  IF Len(text) # 1 THEN [ok |-> FALSE, err |-> "parse error", v |-> Undef,
                               class |-> given_class]
        ELSE LET root_name == text[1].name
                 name == IF ~Truthy(class._name) THEN root_name ELSE class._name
                 after == IF given_class.given
                          THEN [given_class EXCEPT !._name = name] ELSE given_class
             IN  IF ~rootMatches(root_name, name)
                 THEN [ok |-> FALSE, err |-> "wrong root", v |-> Undef, class |-> after]
                 ELSE Bind(parseChild(xmlDocument(text), RefsOf(class._refs)), LAMBDA r :
                        [ok |-> r.ok, err |-> r.err, v |-> r.v, class |-> after])

\* exports.toObj of xml.js: what the callback is called with
xml_toObj(text, given_class) ==
    LET class == IF ~given_class.given THEN def_obj_class ELSE given_class
    IN  IF Len(text) # 1 THEN [ok |-> FALSE, err |-> "parse error", v |-> Undef,
                               class |-> given_class]
        ELSE LET doc == xmlDocument(text)
                 root == IF ObjHas(doc, class._name) /\ TruthyValue(doc.val[class._name])
                         THEN doc.val[class._name]
                         ELSE doc.val[doc.keys[1]]
             IN  Bind(parseChild(root, RefsOf(class._refs)), LAMBDA r :
                    [ok |-> r.ok, err |-> r.err, v |-> r.v, class |-> given_class])

NoResult ==
    [done |-> FALSE, by |-> "", name |-> Undefined, ok |-> FALSE, err |-> "", v |-> Undef]

-----------------------------------------------------------------------------
(* fromObj of the XML converter, and the json and struct converters *)

\* the obj_class argument of parseChild inside fromObj: a class, a ref entry
\* (which has no _refs) or undefined
AsClass(class) == [given |-> TRUE, refs |-> RefsOf(class._refs)]
AsEntry(entry) == [given |-> TRUE, refs |-> entryRefs(entry)]
NoObjClass == [given |-> FALSE, refs |-> NoRefs]

Tags(tags) == [ok |-> TRUE, err |-> "", tags |-> tags]
TagsError(e) == [ok |-> FALSE, err |-> e, tags |-> <<>>]

RECURSIVE fromObjChild(_, _, _)
RECURSIVE fromObjEach(_, _, _, _, _)
RECURSIVE fromObjKeys(_, _, _, _, _, _)

\* obj.forEach(child => res += parseChild(indent, name, child, obj_class))
fromObjEach(name, items, j, cls, acc) ==
    IF j > Len(items) THEN Tags(acc)
    ELSE Bind(fromObjChild(name, items[j], cls), LAMBDA c :
            IF ~c.ok THEN c
            ELSE Bind(acc \o c.tags, LAMBDA next :
                    fromObjEach(name, items, j + 1, cls, next)))

\* the for-in loop over the keys of obj: a key that is a reference of the
\* class, or whose value is an object, becomes child elements, any other
\* key an attribute
fromObjKeys(name, o, refs, i, attrs, children) ==
    IF i > Len(o.keys)
    THEN Tags(<<IF children = <<>> THEN EmptyTag(name, attrs)
                ELSE OpenTag(name, attrs, children)>>)
    ELSE LET k == o.keys[i]
             v == o.val[k]
             declared == k \in DOMAIN refs.entries
         IN  IF ~refs.defined THEN TagsError("TypeError")
             ELSE IF declared \/ v.kind \in {"obj", "list", "null"}
             THEN Bind(fromObjChild(k, v, IF declared THEN AsEntry(refs.entries[k])
                                          ELSE NoObjClass),
                       LAMBDA c :
                         IF ~c.ok THEN c
                         ELSE Bind(children \o c.tags, LAMBDA next :
                                 fromObjKeys(name, o, refs, i + 1, attrs, next)))
             ELSE Bind(ObjPut(attrs, k, Str(escape(v.s))), LAMBDA next :
                     fromObjKeys(name, o, refs, i + 1, next, children))

\* parseChild(indent, name, obj, obj_class) of fromObj: the elements it writes
fromObjChild(name, o, cls) ==
    IF o.kind = "list" THEN fromObjEach(name, o.items, 1, cls, <<>>)
    ELSE IF o.kind = "str" THEN Tags(<<TextTag(name, o.s)>>)
    ELSE fromObjKeys(name,
                     IF o.kind = "obj" THEN o ELSE EmptyObj,
                     IF cls.given THEN cls.refs ELSE RefsOf(def_class._refs),
                     1, EmptyObj, <<>>)

\* fromObj(obj, obj_class) of schema/converters/xml
fromObj(o, class) ==
    IF ~class.given \/ o.kind # "obj" THEN TagsError("TypeError")
    ELSE LET root_name == IF Truthy(class._name) THEN class._name
                          ELSE IF o.keys # <<>> THEN o.keys[1] ELSE Undefined
         IN  fromObjChild(root_name,
                          IF ObjHas(o, root_name) THEN o.val[root_name] ELSE Undef,
                          AsClass(class))

RECURSIVE stringify(_)
\* JSON.stringify: the JSON text as its values; a member that is undefined
\* is left out of an object and written as null in an array
stringify(v) ==
    CASE v.kind = "obj" ->
            LET kept == SelectSeq(v.keys, LAMBDA k : v.val[k].kind # "undef")
            IN  [json |-> "object",
                 members |-> [i \in 1..Len(kept) |-> <<kept[i], stringify(v.val[kept[i]])>>]]
      [] v.kind = "list" ->
            [json |-> "array",
             elements |-> [i \in 1..Len(v.items) |->
                             IF v.items[i].kind = "undef" THEN [json |-> "null"]
                             ELSE stringify(v.items[i])]]
      [] v.kind = "str" -> [json |-> "string", s |-> v.s]
      [] v.kind = "num" -> [json |-> "number", n |-> v.n]
      [] OTHER -> [json |-> "null"]

RECURSIVE JSONparse(_)
RECURSIVE JSONmembers(_, _, _)
JSONmembers(members, i, acc) ==
    IF i > Len(members) THEN acc
    ELSE JSONmembers(members, i + 1, ObjPut(acc, members[i][1], JSONparse(members[i][2])))

\* JSON.parse of a well-formed text
JSONparse(t) ==
    CASE t.json = "object" -> JSONmembers(t.members, 1, EmptyObj)
      [] t.json = "array" -> List([i \in 1..Len(t.elements) |-> JSONparse(t.elements[i])])
      [] t.json = "string" -> Str(t.s)
      [] t.json = "number" -> Num(t.n)
      [] OTHER -> [kind |-> "null"]

\* common.validObjClass
validObjClass(class) == class.given /\ class._name # Undefined

\* toObj and fromObj of schema/converters/struct: both check the class and
\* return nothing
struct_toObj(buf, class) ==
    IF ~validObjClass(class) THEN [ok |-> FALSE, v |-> Undef] ELSE [ok |-> TRUE, v |-> Undef]

struct_fromObj(o, class) ==
    IF ~validObjClass(class) THEN [ok |-> FALSE, v |-> Undef] ELSE [ok |-> TRUE, v |-> Undef]

NoTrip ==
    [done |-> FALSE, by |-> "", firstOk |-> FALSE, first |-> Undef,
     secondOk |-> FALSE, second |-> Undef]

\* fromObj(o, C), and fromObj(toObj(fromObj(o, C), C), C) when that succeeded
xmlTrip(o, class) ==
    Bind(fromObj(o, class), LAMBDA first :
        IF ~first.ok THEN [NoTrip EXCEPT !.done = TRUE, !.by = "xml"]
        ELSE Bind(toObj(first.tags, class), LAMBDA back :
                IF ~back.ok
                THEN [NoTrip EXCEPT !.done = TRUE, !.by = "xml", !.firstOk = TRUE,
                                    !.first = first.tags]
                ELSE Bind(fromObj(back.v, back.class), LAMBDA second :
                        [done |-> TRUE, by |-> "xml", firstOk |-> TRUE,
                         first |-> first.tags, secondOk |-> second.ok,
                         second |-> second.tags])))

jsonTrip(o, class) ==
    [done |-> TRUE, by |-> "json", firstOk |-> TRUE, first |-> stringify(o),
     secondOk |-> TRUE, second |-> stringify(JSONparse(stringify(o)))]

structTrip(o, class) ==
    LET first == struct_fromObj(o, class)
        back == struct_toObj(first.v, class)
        second == struct_fromObj(back.v, class)
    IN  [done |-> TRUE, by |-> "struct", firstOk |-> first.ok, first |-> first.v,
         secondOk |-> first.ok /\ back.ok /\ second.ok, second |-> second.v]

-----------------------------------------------------------------------------
(* The struct converter: getBinaryType and getStructType *)

\* a type definition: size, min and native may be missing
TypeDef(type, size, min, native) ==
    [type |-> type, size |-> size, min |-> min, native |-> native]
NoTypeDef == TypeDef(Undefined, Undef, Undef, Undefined)

\* the codecs of restructure by the names the type catalog gives them
Codec(name) == [kind |-> "codec", c |-> name]
NoCodec == [done |-> FALSE, ok |-> FALSE, codec |-> Undef]

\* exports.types of common.js with the native codec of each entry
catalog ==
    [int8   |-> TypeDef("Integer", Num(1), Undef, "int8"),
     int16  |-> TypeDef("Integer", Num(2), Undef, "int16"),
     int32  |-> TypeDef("Integer", Num(4), Undef, "int32"),
     int64  |-> TypeDef("Integer", Num(8), Undef, "int64"),
     uint8  |-> TypeDef("Integer", Num(1), Num(0), "uint8"),
     uint16 |-> TypeDef("Integer", Num(2), Num(0), "uint16"),
     uint32 |-> TypeDef("Integer", Num(4), Num(0), "uint32"),
     uint64 |-> TypeDef("Integer", Num(8), Num(0), "uint64"),
     float  |-> TypeDef("Numeric", Num(4), Undef, "float"),
     double |-> TypeDef("Numeric", Num(8), Undef, "double"),
     bool   |-> TypeDef("Boolean", Undef, Undef, "Boolean(uint8)"),
     string |-> TypeDef("Alpha", Undef, Undef, "String(uint32,utf8)"),
     node   |-> TypeDef("Node", Undef, Undef, Undefined)]

Returns(c) == [ok |-> TRUE, codec |-> c]
Throws == [ok |-> FALSE, codec |-> Undef]

\* line 33: the category getBinaryType tests for float and double
numberCategory == "Number"

\* getBinaryType(type_def): the codec it returns, Undef when it returns
\* without one
getBinaryType(td) ==
    LET unsigned == td.min.kind = "num" /\ td.min.n >= 0
        sign == IF unsigned THEN "uint" ELSE "int"
    IN  IF td.native # Undefined THEN Returns(Codec(td.native))
        ELSE IF td.type = "Integer"
        THEN IF ~TruthyValue(td.size) \/ td.size = Num(4) THEN Returns(Codec(sign \o "32"))
             ELSE IF td.size = Num(1) THEN Returns(Codec(sign \o "8"))
             ELSE IF td.size = Num(2) THEN Returns(Codec(sign \o "16"))
             ELSE IF td.size = Num(8) THEN Returns(Codec(sign \o "64"))
             ELSE Throws
        ELSE IF td.type = numberCategory
        THEN IF td.size = Num(4) THEN Returns(Codec("float"))
             ELSE IF td.size = Num(8) THEN Returns(Codec("double"))
             ELSE Throws
        ELSE IF td.type = "Boolean" THEN Returns(Codec("Boolean(uint8)"))
        ELSE IF td.type = "Alpha"
        THEN IF td.size.kind # "num" THEN Returns(Codec("String(uint8,utf8)"))
             ELSE Returns(Codec("String(" \o ToString(td.size.n) \o ")"))
        ELSE Returns(Undef)

\* a descriptor for getStructType: _attrs and _refs as their entries in
\* declared order, each a pair of the key and the type definition or ref entry
StructClass(name, attrs, refs) == [_name |-> name, _attrs |-> attrs, _refs |-> refs]
NoStructClass == StructClass(Undefined, <<>>, <<>>)
NoLayout == [done |-> FALSE, ok |-> FALSE, fields |-> EmptyObj]

\* new rs.Array(s, rs.uint32)
ArrayOf(s) == [kind |-> "array", of |-> s, length |-> Codec("uint32")]

\* lines 66 and 74: the key of a reference field, obj.name
refField(k, entry) == IF entry.name = Undefined THEN "undefined" ELSE entry.name

RECURSIVE getStructType(_)
RECURSIVE structAttrs(_, _, _)
RECURSIVE structRefs(_, _, _)

\* for (let k in obj_class._attrs)
structAttrs(attrs, i, fields) ==
    IF i > Len(attrs) THEN [ok |-> TRUE, fields |-> fields]
    ELSE Bind(getBinaryType(attrs[i][2]), LAMBDA b :
            IF ~b.ok THEN [ok |-> FALSE, fields |-> fields]
            ELSE Bind(ObjPut(fields, attrs[i][1], b.codec), LAMBDA next :
                    structAttrs(attrs, i + 1, next)))

\* for (let k in obj_class._refs)
structRefs(refs, i, fields) ==
    IF i > Len(refs) THEN [ok |-> TRUE, fields |-> fields]
    ELSE Bind(getStructType(refs[i][2].ref_class), LAMBDA s :
            IF ~s.ok THEN [ok |-> FALSE, fields |-> fields]
            ELSE Bind(ObjPut(fields, refField(refs[i][1], refs[i][2]),
                             IF refs[i][2].is_container THEN ArrayOf(s.fields)
                             ELSE s.fields),
                      LAMBDA next : structRefs(refs, i + 1, next)))

\* getStructType(obj_class) of a descriptor that has no _struct yet
getStructType(class) ==
    Bind(structAttrs(class._attrs, 1, EmptyObj), LAMBDA a :
        IF ~a.ok THEN a ELSE structRefs(class._refs, 1, a.fields))

-----------------------------------------------------------------------------
(* getStructType over descriptors and layouts that are objects with identity *)

\* the heap: the descriptors by their identity, _struct holding the identity
\* of a layout object (0: no _struct yet), and the layout objects allocated
\* so far, each one's identity being its position
NoHeap == [classes |-> <<>>, objects |-> <<>>]

\* the running calls, the values the outermost calls returned, the error
\* that ended the last one, how often the body of line 55 ran per class, and
\* the number of layout objects there were when the outermost call began
NoWalk ==
    [stack |-> <<>>, returned |-> <<>>, err |-> "", expanded |-> <<>>, calls |-> 0,
     base |-> 0]

\* a reference to the layout object with the given identity
LayoutRef(id) == [kind |-> "layout", id |-> id]

\* a frame of getStructType: obj is the layout object the call allocated
WalkFrame(c) == [class |-> c, pc |-> "enter", i |-> 1, obj |-> 0]

\* getStructType that never finds a layout on the descriptor
hasStruct_never(classes, c) == FALSE

\* line 55: obj_class._struct is truthy
hasStruct(classes, c) == classes[c]._struct # 0

\* getStructType that stores the layout on the descriptor when it returns
storesStruct_onReturn(pc) == pc = "return"

\* line 58: the layout is stored on the descriptor before the loops run
storesStruct(pc) == pc = "enter"

\* the value a call hands to its caller: into the caller's layout under
\* obj.name (lines 64-74), or out of the outermost call
Deliver(h, w, below, id) ==
    IF below = <<>>
    THEN [heap |-> h,
          walk |-> [w EXCEPT !.stack = <<>>, !.err = "",
                             !.returned = Append(@, [class |-> w.stack[1].class,
                                                     layout |-> id,
                                                     fields |-> h.objects[id],
                                                     allocated |->
                                                        Len(h.objects) - w.base])]]
    ELSE LET f == below[Len(below)]
             e == h.classes[f.class]._refs[f.i][2]
             k == refField(h.classes[f.class]._refs[f.i][1], e)
             v == IF e.is_container THEN ArrayOf(LayoutRef(id)) ELSE LayoutRef(id)
         IN  [heap |-> [h EXCEPT !.objects[f.obj] = ObjPut(@, k, v)],
              walk |-> [w EXCEPT !.stack = [below EXCEPT ![Len(below)].i = @ + 1]]]

-----------------------------------------------------------------------------
(* Ranges: lists of interval objects (ArrayRange: the properties 0 and 1) *)

\* an interval object: from is its property 0 (fromProp), to its property 1
Interval(from, to) == [from |-> from, to |-> to]

\* the interval objects by identity (their position in objs), the list
\* `intervals` of each Range as identities, and the last call and its outcome
\* (was: the sampled values that were in range before it)
NoCall ==
    [op |-> "none", on |-> 0, a |-> 0, b |-> 0, threw |-> FALSE, result |-> FALSE,
     was |-> {}]
NoRanges == [objs |-> <<>>, intervals |-> <<>>, last |-> NoCall, ops |-> 0, plain |-> TRUE]

\* Range.prototype.from and Range.prototype.to of the interval at position i
from(objs, ints, i) == objs[ints[i]].from
to(objs, ints, i) == objs[ints[i]].to

\* inRange(x) of a number: the loop never breaks, as to[i] is undefined
inRange(objs, ints, x) ==
    \E i \in 1..Len(ints) : from(objs, ints, i) <= x /\ to(objs, ints, i) >= x

\* validInterval
validInterval(int) == int.from <= int.to

\* Array.prototype.splice: insert before position i, remove position i
spliceIn(q, i, x) == SubSeq(q, 1, i - 1) \o <<x>> \o SubSeq(q, i, Len(q))
spliceOut(q, i) == SubSeq(q, 1, i - 1) \o SubSeq(q, i + 1, Len(q))

Done(objs, ints) == [ok |-> TRUE, objs |-> objs, intervals |-> ints]
Thrown(objs, ints) == [ok |-> FALSE, objs |-> objs, intervals |-> ints]

RECURSIVE add(_, _, _)
\* Range.prototype.add of one interval object nint (lines 1352-1388)
add(objs, ints, nint) ==
    LET f == objs[nint].from
        t == objs[nint].to
        at == {i \in 1..Len(ints) : f <= to(objs, ints, i)}
    IN  IF ~validInterval(objs[nint]) THEN Thrown(objs, ints)
        ELSE IF f = t THEN Done(objs, ints)
        ELSE IF at = {} THEN Done(objs, Append(ints, nint))
        ELSE LET i == CHOOSE k \in at : \A m \in at : k <= m IN
             IF t < from(objs, ints, i) THEN Done(objs, spliceIn(ints, i, nint))
             ELSE IF t <= to(objs, ints, i)
             THEN Done([objs EXCEPT ![ints[i]].from = objs[nint].from], ints)
             ELSE Bind(IF from(objs, ints, i) < f
                       THEN [objs EXCEPT ![nint].from = from(objs, ints, i)]
                       ELSE objs,
                       LAMBDA objs2 : add(objs2, spliceOut(ints, i), nint))

\* intervalFromArray: a new interval object for the array [a, b]
intervalFromArray(objs, a, b) == Append(objs, Interval(a, b))

\* add([a, b]) and add(a, b)
addArray(objs, ints, a, b) ==
    IF ~validInterval(Interval(a, b)) THEN Thrown(objs, ints)
    ELSE add(intervalFromArray(objs, a, b), ints, Len(objs) + 1)

\* subtract that keeps the end of an interval it reaches from its start
coversRest_strict(t, to_i) == t > to_i

\* line 1463: the subtracted interval starts at or before the interval and
\* reaches its end: the interval is removed
coversRest(t, to_i) == t >= to_i

RECURSIVE subtractLoop(_, _, _, _, _)
\* the while loop of Range.prototype.subtract (lines 1444-1476)
subtractLoop(objs, ints, i, f, t) ==
    IF i > Len(ints) THEN Done(objs, ints)
    ELSE IF f < to(objs, ints, i)
    THEN IF t <= from(objs, ints, i) THEN Done(objs, ints)
         ELSE IF f > from(objs, ints, i)
         THEN IF t >= to(objs, ints, i)
              THEN Bind([objs EXCEPT ![ints[i]].to = f],
                        LAMBDA objs2 : subtractLoop(objs2, ints, i + 1, f, t))
              ELSE Done(Append([objs EXCEPT ![ints[i]].to = f],
                               Interval(t, to(objs, ints, i))),
                        spliceIn(ints, i + 1, Len(objs) + 1))
         ELSE IF coversRest(t, to(objs, ints, i))
         THEN subtractLoop(objs, spliceOut(ints, i), i, f, t)
         ELSE Done([objs EXCEPT ![ints[i]].from = t], ints)
    ELSE subtractLoop(objs, ints, i + 1, f, t)

\* Range.prototype.subtract of one interval, given by its ends
subtract(objs, ints, f, t) ==
    IF f > t THEN Thrown(objs, ints)
    ELSE IF f = t THEN Done(objs, ints)
    ELSE subtractLoop(objs, ints, 1, f, t)

RECURSIVE addEach(_, _, _, _)
\* add.apply(this, range.intervals): add of each argument in turn
addEach(objs, ints, args, k) ==
    IF k > Len(args) THEN Done(objs, ints)
    ELSE Bind(add(objs, ints, args[k]), LAMBDA r :
            IF ~r.ok THEN r ELSE addEach(r.objs, r.intervals, args, k + 1))

\* Range.prototype.combine: with no interval in range, add is called without
\* an argument and nint.is throws a TypeError
combine(objs, ints, args) ==
    IF args = <<>> THEN Thrown(objs, ints) ELSE addEach(objs, ints, args, 1)

RECURSIVE subtractEach(_, _, _, _)
\* subtract.apply(this, range.intervals)
subtractEach(objs, ints, args, k) ==
    IF k > Len(args) THEN Done(objs, ints)
    ELSE Bind(IF validInterval(objs[args[k]])
              THEN subtract(objs, ints, objs[args[k]].from, objs[args[k]].to)
              ELSE Thrown(objs, ints),
              LAMBDA r : IF ~r.ok THEN r
                         ELSE subtractEach(r.objs, r.intervals, args, k + 1))

\* Range.prototype.exclude: with no interval in range, subtract is called
\* without an argument and throws
exclude(objs, ints, args) ==
    IF args = <<>> THEN Thrown(objs, ints) ELSE subtractEach(objs, ints, args, 1)

\* same with the lengths compared and the intervals not
same_lengths(objs, ints, other) == Len(ints) = Len(other)

\* Range.prototype.same of two Range objects
same(objs, ints, other) ==
    /\ Len(ints) = Len(other)
    /\ \A i \in 1..Len(ints) :
          /\ from(objs, ints, i) = from(objs, other, i)
          /\ to(objs, ints, i) = to(objs, other, i)

\* the interval objects some Range still holds, in the order the Ranges hold
\* them; the others are garbage, and identities are positions in this list
RECURSIVE Distinct(_, _, _)
Distinct(q, i, acc) ==
    IF i > Len(q) THEN acc
    ELSE Distinct(q, i + 1,
                  IF \E k \in 1..Len(acc) : acc[k] = q[i] THEN acc ELSE Append(acc, q[i]))

Collect(objs, lists) ==
    LET live == Distinct(lists[1] \o lists[2], 1, <<>>)
        new(n) == CHOOSE k \in 1..Len(live) : live[k] = n
    IN  [objs |-> [k \in 1..Len(live) |-> objs[live[k]]],
         intervals |-> [r \in 1..2 |-> [i \in 1..Len(lists[r]) |-> new(lists[r][i])]]]

-----------------------------------------------------------------------------
(* Log: the logging calls, the write callbacks and shutdown *)

\* Log.eventType
eventType == [err |-> -1, warn |-> 0, info |-> 1, trace |-> 2]

\* a Log instance: file is whether this.file is set; writes are the calls of
\* file.write whose callback has not run, immediates the callbacks handed to
\* setImmediate, ending the file.end of shutdown; emitted lists the events
\* emitted, fate what became of each logging call, delivered the callbacks
\* that ran, thrown the error the last call threw, last the last call
NoEnding == [active |-> FALSE, cb |-> FALSE]
NoLogCall == [op |-> "none", cb |-> FALSE]
NewLog ==
    [file |-> TRUE, level |-> eventType.info, pendingEvents |-> 0, writes |-> <<>>,
     immediates |-> <<>>, ending |-> NoEnding, emitted |-> <<>>, fate |-> <<>>,
     delivered |-> <<>>, thrown |-> "", last |-> NoLogCall, shutdowns |-> 0]
NoLog == [NewLog EXCEPT !.file = FALSE]

\* a callback and the error it is called with ("": none)
Callback(call, err) == [call |-> call, err |-> err]

\* lines 852-854: 'busy' when pendingEvents is 0, then the increment
countEvent(l) ==
    [l EXCEPT !.emitted = IF l.pendingEvents = 0 THEN Append(@, "busy") ELSE @,
              !.pendingEvents = @ + 1]

\* lines 856-864: the event is ignored when its type is above the level
isIgnored(type, level) == type > level

\* _log from line 829 on: the event is counted, then ignored or written;
\* log.file.write throws a TypeError when log.file is null
logEvent(l, n, type, cb) ==
    LET c == countEvent(l) IN
    IF isIgnored(type, l.level)
    THEN [c EXCEPT !.immediates = IF cb THEN Append(@, Callback(n, "")) ELSE @,
                   !.fate = Append(@, IF l.file THEN "ignored" ELSE "shutdown")]
    ELSE IF ~l.file
    THEN [c EXCEPT !.thrown = "TypeError", !.fate = Append(@, "shutdown")]
    ELSE [c EXCEPT !.writes = Append(@, [call |-> n, cb |-> cb]),
                   !.fate = Append(@, "pending")]

\* _log(log, msg, type, cb)
_log(l, type, cb) ==
    LET n == Len(l.fate) + 1
        l0 == [l EXCEPT !.thrown = "", !.last = [op |-> "log", cb |-> cb]]
    IN  IF ~l.file
        THEN IF cb
             THEN logEvent([l0 EXCEPT !.immediates = Append(@, Callback(n, "shutdown"))],
                           n, type, cb)
             ELSE [l0 EXCEPT !.thrown = "shutdown", !.fate = Append(@, "shutdown")]
        ELSE logEvent(l0, n, type, cb)

\* the callback of log.file.write (lines 879-897)
written(l, ok) ==
    LET w == l.writes[1]
        rest == [l EXCEPT !.writes = Tail(@), !.thrown = "",
                          !.last = [op |-> "written", cb |-> w.cb]]
    IN  IF ~ok
        THEN [rest EXCEPT !.emitted = Append(@, "error"),
                          !.fate[w.call] = "failed",
                          !.delivered = IF w.cb THEN Append(@, Callback(w.call, "write"))
                                        ELSE @,
                          !.thrown = IF w.cb THEN "" ELSE "write"]
        ELSE [rest EXCEPT !.emitted = IF l.pendingEvents = 1
                                      THEN @ \o <<"event", "idle">>
                                      ELSE Append(@, "event"),
                          !.pendingEvents = @ - 1,
                          !.fate[w.call] = "written",
                          !.delivered = IF w.cb THEN Append(@, Callback(w.call, ""))
                                        ELSE @]

\* Log.prototype.shutdown
shutdown(l, cb) ==
    LET l0 == [l EXCEPT !.thrown = "", !.last = [op |-> "shutdown", cb |-> cb],
                        !.shutdowns = @ + 1]
    IN  IF l.file
        THEN [l0 EXCEPT !.ending = [active |-> TRUE, cb |-> cb], !.file = FALSE]
        ELSE [l0 EXCEPT !.immediates = IF cb THEN Append(@, Callback(0, "")) ELSE @]

\* the callback of file.end: it runs after the writes before it
ended(l) ==
    [l EXCEPT !.ending = NoEnding, !.emitted = Append(@, "shutdown"),
              !.delivered = IF l.ending.cb THEN Append(@, Callback(0, "")) ELSE @,
              !.thrown = "", !.last = [op |-> "ended", cb |-> l.ending.cb]]

\* a callback handed to setImmediate runs
immediate(l) ==
    [l EXCEPT !.immediates = Tail(@), !.delivered = Append(@, l.immediates[1]),
              !.thrown = "", !.last = [op |-> "immediate", cb |-> TRUE]]

-----------------------------------------------------------------------------
(* The registry: Schema.load, Schema.prototype.load and init as steps *)

NoDocuments == [d \in {} |-> 0]

Registered == DOMAIN documents

\* a frame of Schema.prototype.load: pc is "load" on entry, "deps" while init
\* loads the dependencies, "raise" while an error unwinds it
Frame(doc_name, docs) ==
    [doc |-> doc_name, pc |-> "load", i |-> 1, err |-> "",
     this |-> [members |-> <<>>, member_map |-> EmptyMap, dependencies |-> <<>>,
               declared |-> <<>>, inited |-> FALSE],
     before |-> docs]

Top == stack[Len(stack)]
Below == SubSeq(stack, 1, Len(stack) - 1)
SetTop(f) == [stack EXCEPT ![Len(stack)] = f]

\* load without its guard
isDuplicate_never(docs, doc_name) == FALSE

\* line 286: the guard against a second load of a registered name
isDuplicate(docs, doc_name) == doc_name \in DOMAIN docs

\* load that registers `this` before init has loaded the dependencies as well
loadRegisters_early(phase, this) == Len(this.members) > 0

\* load that registers `this` when init starts and not after it
loadRegisters_beforeInit(phase, this) == phase = "init" /\ Len(this.members) > 0

\* load that registers `this` whatever its members
loadRegisters_empty(phase, this) == phase = "return"

\* lines 298-303: whether load writes `this` into Schema.documents when it is
\* at the given phase ("init": inside this.init, "return": after it returned)
loadRegisters(phase, this) == phase = "return" /\ Len(this.members) > 0

Register(docs, doc_name, this) == (doc_name :> this) @@ docs

RegisterOrder(ord, docs, doc_name) ==
    IF doc_name \in DOMAIN docs THEN ord ELSE Append(ord, doc_name)

\* a loop that loads every dependency, registered or not
needsLoad_always(docs, dep) == TRUE

\* lines 273-277: the dependency at position i needs a nested load
needsLoad(docs, dep) == dep \notin DOMAIN docs

\* Schema.load(fname): a new root load
SchemaLoad(root) ==
    /\ stack = <<>>
    /\ loads < MaxLoads
    /\ SchemaFile' = root
    /\ stack' = <<Frame(root, documents)>>
    /\ outcome' = "running"
    /\ loads' = loads + 1
    /\ loadCalls' = [d \in Docs |-> IF d = root THEN 1 ELSE 0]
    /\ UNCHANGED <<fs, documents, order, hist, pureVars>>

\* Schema.prototype.load up to the dependency loop of init
LoadDocument ==
    /\ stack # <<>>
    /\ Top.pc = "load"
    /\ IF isDuplicate(documents, Top.doc)
       THEN /\ stack' = SetTop([Top EXCEPT !.pc = "raise", !.err = "duplicate"])
            /\ UNCHANGED <<fs, documents, order>>
       ELSE \E file \in fileChoices(fs, Top.doc) :
            \E files \in readHeaders({[fs EXCEPT ![Top.doc] = file]}, file.deps, 1) :
            /\ fs' = files
            /\ IF files[Top.doc].kind = "missing"
               THEN /\ stack' = SetTop([Top EXCEPT !.pc = "raise", !.err = "not found"])
                    /\ UNCHANGED <<documents, order>>
               ELSE \E r \in {initDocument(files, SchemaFile, Top.doc)} :
                    IF ~r.ok
                    THEN /\ stack' = SetTop([Top EXCEPT !.pc = "raise", !.err = r.err])
                         /\ UNCHANGED <<documents, order>>
                    ELSE /\ stack' = SetTop([Top EXCEPT !.pc = "deps", !.this = r.this])
                         /\ IF loadRegisters("init", r.this)
                            THEN /\ documents' = Register(documents, Top.doc, r.this)
                                 /\ order' = RegisterOrder(order, documents, Top.doc)
                            ELSE UNCHANGED <<documents, order>>
    /\ UNCHANGED <<SchemaFile, outcome, loads, hist, loadCalls, pureVars>>

\* one round of the loop that loads the dependencies
LoadDependency ==
    /\ stack # <<>>
    /\ Top.pc = "deps"
    /\ Top.i <= Len(Top.this.dependencies)
    /\ LET dep == Top.this.dependencies[Top.i] IN
       IF ~needsLoad(documents, dep)
       THEN /\ stack' = SetTop([Top EXCEPT !.i = @ + 1])
            /\ UNCHANGED loadCalls
       ELSE IF Len(stack) >= StackLimit
       THEN /\ stack' = SetTop([Top EXCEPT !.pc = "raise", !.err = "RangeError"])
            /\ UNCHANGED loadCalls
       ELSE /\ stack' = Append(stack, Frame(dep, documents))
            /\ loadCalls' = [loadCalls EXCEPT ![dep] = @ + 1]
    /\ UNCHANGED <<fs, documents, order, SchemaFile, outcome, loads, hist, pureVars>>

HistEntry(f, result, err, after) ==
    [root |-> f.doc, result |-> result, err |-> err, before |-> f.before, after |-> after]

\* init returned: load registers the document and returns; for the root,
\* Schema.load goes on to expand the dependencies of every document
Return ==
    /\ stack # <<>>
    /\ Top.pc = "deps"
    /\ Top.i > Len(Top.this.dependencies)
    /\ LET this == [Top.this EXCEPT !.inited = TRUE]
           docs1 == IF loadRegisters("return", this)
                    THEN Register(documents, Top.doc, this) ELSE documents
           ord1 == IF loadRegisters("return", this)
                   THEN RegisterOrder(order, documents, Top.doc) ELSE order
       IN  IF Len(stack) > 1
           THEN /\ documents' = docs1
                /\ order' = ord1
                /\ stack' = [Below EXCEPT ![Len(stack) - 1].i = @ + 1]
                /\ UNCHANGED <<outcome, hist>>
           ELSE \E x \in {expandAll(docs1, ord1, 1, StackLimit)} :
                /\ documents' = x.docs
                /\ order' = ord1
                /\ stack' = <<>>
                /\ outcome' = IF x.ok THEN "returned" ELSE "raised"
                /\ hist' = Append(hist,
                      HistEntry(Top, IF x.ok THEN "returned" ELSE "raised",
                                IF x.ok THEN "" ELSE "RangeError", x.docs))
    /\ UNCHANGED <<fs, SchemaFile, loads, loadCalls, pureVars>>

\* an error leaves one frame: the catch of load throws it on to the caller
Unwind ==
    /\ stack # <<>>
    /\ Top.pc = "raise"
    /\ IF Len(stack) > 1
       THEN /\ stack' = [Below EXCEPT ![Len(stack) - 1].pc = "raise",
                                      ![Len(stack) - 1].err = Top.err]
            /\ UNCHANGED <<outcome, hist>>
       ELSE /\ stack' = <<>>
            /\ outcome' = "raised"
            /\ hist' = Append(hist, HistEntry(Top, "raised", Top.err, documents))
    /\ UNCHANGED <<fs, documents, order, SchemaFile, loads, loadCalls, pureVars>>

NoRaw == RawMember(Undefined, Undefined)
NotBuilt == [ok |-> FALSE, err |-> "not built"]
NotParsed == [done |-> FALSE, level |-> 0, ok |-> FALSE, calls |-> <<>>]

\* no Schema.load has been called
SchemaIdle ==
    /\ fs = [d \in Docs |-> Unread]
    /\ documents = NoDocuments
    /\ order = <<>>
    /\ SchemaFile = Undefined
    /\ stack = <<>>
    /\ outcome = "idle"
    /\ loads = 0
    /\ hist = <<>>
    /\ loadCalls = [d \in Docs |-> 0]

\* no Member is under construction
MemberIdle == raw = NoRaw /\ built = NotBuilt /\ parsed = NotParsed

NoVerdict == [done |-> FALSE, valid |-> FALSE, init |-> FALSE]

\* no version is being checked
VersionIdle == version = NoVersion /\ verdict = NoVerdict

\* no conversion has been asked for
XmlIdle == xml = <<>> /\ obj_class = NoClass /\ xmlResult = NoResult

\* no round trip has been asked for
TripIdle == tripObj = Undef /\ trip = NoTrip

\* no codec has been asked for
BinaryTypeIdle == type_def = NoTypeDef /\ codec = NoCodec

\* no layout has been asked for
StructTypeIdle == struct_class = NoStructClass /\ layout = NoLayout

\* no descriptor is on the heap
WalkIdle == heap = NoHeap /\ walk = NoWalk

\* no Range has been made
RangeIdle == ranges = NoRanges

\* no Log has been made
LogIdle == log = NoLog

Init ==
    /\ SchemaIdle
    /\ MemberIdle
    /\ VersionIdle
    /\ XmlIdle
    /\ TripIdle
    /\ BinaryTypeIdle
    /\ StructTypeIdle
    /\ WalkIdle
    /\ RangeIdle
    /\ LogIdle

Next ==
    \/ \E root \in Docs : SchemaLoad(root)
    \/ LoadDocument
    \/ LoadDependency
    \/ Return
    \/ Unwind

Spec == Init /\ [][Next]_vars

-----------------------------------------------------------------------------
(* The Member constructor on its own: bounded raw records *)

RECURSIVE SeqsUpTo(_, _)
\* the sequences over S of length at most n
SeqsUpTo(S, n) ==
    IF n = 0 THEN {<<>>}
    ELSE LET shorter == SeqsUpTo(S, n - 1)
         IN  shorter \cup {Append(q, x) : q \in shorter, x \in S}

RawNames == {Undefined, "", "x", "y"}

RawEntries ==
    {Entry("X", Str("5")), Entry("Y", Str("notanumber")), Entry("Z", Num(7)),
     Entry(Undefined, Num(1)), Entry("U", Undef)}

RawLeaves ==
    {RawMember(t, n) : t \in {Undefined, "", "int32", "struct"}, n \in RawNames}
    \cup {RawEnum("E", vt, vs) : vt \in {Undefined, "int32", "string", "node"},
                                 vs \in SeqsUpTo(RawEntries, MaxValues)}
    \cup {RawMember("enum", "E")}
    \cup {RawArray("arr", vt) : vt \in {Undefined, "int32", "bogus", "node"}}
    \cup {RawFunction("f", <<"int32", "string">>)}

RawChildren ==
    {RawMember("int32", "x"), RawMember("int32", "y"), RawMember("int32", ""),
     WithTemplate(RawMember("int32", "w"), "w.template"),
     WithTemplate(RawStruct("struct", "Own", <<RawMember("int32", "a")>>), "own.template"),
     RawMember(Undefined, "z"),
     RawStruct("struct", Undefined, <<RawMember("int32", "x")>>),
     RawStruct("struct", "Inner", <<RawMember("int32", "a")>>),
     RawEnum("E", "int32", <<Entry("X", Str("5"))>>),
     RawFunction("f", <<"int32">>)}

RawMembers ==
    RawLeaves
    \cup {WithTemplate(RawStruct(t, n, ms), tpl) :
            t \in {"struct", "union"}, n \in {Undefined, "Point"},
            ms \in SeqsUpTo(RawChildren, MaxChildren),
            tpl \in {Undefined, "point.template"}}

\* new Member(null, schema, 0, raw)
Construct ==
    /\ built = NotBuilt
    /\ raw \in RawMembers
    /\ \E m \in {Member(NullParent, 0, raw)} : built' = m
    /\ UNCHANGED <<schemaVars, raw, parsed, versionVars, xmlVars, tripVars, structVars, walkVars, ranges, log>>

\* built.parse(level, cb) with a cb that records its arguments
Parse(level) ==
    /\ built.ok
    /\ ~parsed.done
    /\ \E r \in {parse(built.m, level)} :
          parsed' = [done |-> TRUE, level |-> level, ok |-> r.ok, calls |-> r.calls]
    /\ UNCHANGED <<schemaVars, raw, built, versionVars, xmlVars, tripVars, structVars, walkVars, ranges, log>>

InitMember ==
    /\ SchemaIdle
    /\ VersionIdle
    /\ XmlIdle
    /\ TripIdle
    /\ BinaryTypeIdle
    /\ StructTypeIdle
    /\ WalkIdle
    /\ RangeIdle
    /\ LogIdle
    /\ raw \in RawMembers
    /\ built = NotBuilt
    /\ parsed = NotParsed

NextMember ==
    \/ Construct
    \/ \E level \in 0..1 : Parse(level)

SpecMember == InitMember /\ [][NextMember]_vars

-----------------------------------------------------------------------------
(* The version check on its own: bounded version properties *)

VersionParts == {"0", "1", "2", "99", "-1", "", "x"}

\* a version given as an array
VersionArray(parts) == [isString |-> FALSE, parts |-> parts]

Versions ==
    {NoVersion}
    \cup {VersionString(p) : p \in SeqsUpTo(VersionParts, MaxParts) \ {<<>>}}
    \cup {VersionArray(p) : p \in SeqsUpTo({Num(0), Num(1), Num(2), Str("0")}, MaxParts) \ {<<>>}}

\* doc_version.isValid(version), and init of a document that has this version
CheckVersion ==
    /\ ~verdict.done
    /\ verdict' = [done |-> TRUE,
                   valid |-> isValid(version),
                   init |-> initDocument([d \in Docs |-> JsonFile(version, <<>>, GoodBody)],
                                         "a.json", "a.json").ok]
    /\ UNCHANGED <<schemaVars, memberVars, version, xmlVars, tripVars, structVars, walkVars, ranges, log>>

InitVersion ==
    /\ SchemaIdle
    /\ MemberIdle
    /\ XmlIdle
    /\ TripIdle
    /\ BinaryTypeIdle
    /\ StructTypeIdle
    /\ WalkIdle
    /\ RangeIdle
    /\ LogIdle
    /\ version \in Versions
    /\ verdict = NoVerdict

NextVersion == CheckVersion

SpecVersion == InitVersion /\ [][NextVersion]_vars

-----------------------------------------------------------------------------
(* toObj on its own: bounded XML texts and descriptors *)

IdAttr == ObjPut(EmptyObj, "id", Str("1"))

\* the elements named B that occur below the root
BTags ==
    {TextTag("B", "t"), EmptyTag("B", EmptyObj), EmptyTag("B", IdAttr),
     OpenTag("B", EmptyObj, <<TextTag("D", "t")>>),
     OpenTag("B", EmptyObj, <<TextTag("D", "t"), TextTag("D", "u")>>)}

RootChildren ==
    {bs \o cs : bs \in SeqsUpTo(BTags, MaxOccurs), cs \in {<<>>, <<TextTag("C", "t")>>}}

RootTags ==
    {IF cs = <<>> THEN EmptyTag(n, a) ELSE OpenTag(n, a, cs) :
        n \in {"A", "R"}, a \in {EmptyObj, IdAttr}, cs \in RootChildren}

XmlTexts == {<<r>> : r \in RootTags}

\* the class of the elements named B: D is a container in it, or not declared
BClasses ==
    {ObjClass("B", NoFields),
     ObjClass("B", "D" :> RefEntry("D", ObjClass("D", NoFields), TRUE))}

RefMaps ==
    {NoFields}
    \cup {"B" :> RefEntry("B", c, ic) : c \in BClasses, ic \in BOOLEAN}
    \cup {"C" :> RefEntry("C", ObjClass("C", NoFields), TRUE)}
    \cup {("B" :> RefEntry("B", c, ic)) @@ ("C" :> RefEntry("C", ObjClass("C", NoFields), TRUE)) :
            c \in BClasses, ic \in BOOLEAN}

ObjClasses ==
    {NoClass} \cup {ObjClass(n, refs) : n \in {"A", "R", Undefined}, refs \in RefMaps}

\* toObj(xml, obj_class) of schema/converters/xml
ToObj ==
    /\ ~xmlResult.done
    /\ \E r \in {toObj(xml, obj_class)} :
          /\ xmlResult' = [done |-> TRUE, by |-> "converter",
                           name |-> IF obj_class.given THEN obj_class._name
                                    ELSE def_class._name,
                           ok |-> r.ok, err |-> r.err, v |-> r.v]
          /\ obj_class' = r.class
    /\ UNCHANGED <<schemaVars, memberVars, versionVars, xml, tripVars, structVars, walkVars, ranges, log>>

\* toObj(xml, obj_class, cb) of xml.js
XmlToObj ==
    /\ ~xmlResult.done
    /\ \E r \in {xml_toObj(xml, obj_class)} :
          xmlResult' = [done |-> TRUE, by |-> "xml.js",
                        name |-> IF obj_class.given THEN obj_class._name
                                 ELSE def_obj_class._name,
                        ok |-> r.ok, err |-> r.err, v |-> r.v]
    /\ UNCHANGED <<schemaVars, memberVars, versionVars, xml, obj_class, tripVars, structVars, walkVars, ranges, log>>

InitXml ==
    /\ SchemaIdle
    /\ MemberIdle
    /\ VersionIdle
    /\ xml \in XmlTexts
    /\ obj_class \in ObjClasses
    /\ xmlResult = NoResult
    /\ TripIdle
    /\ BinaryTypeIdle
    /\ StructTypeIdle
    /\ WalkIdle
    /\ RangeIdle
    /\ LogIdle

NextXml == ToObj \/ XmlToObj

SpecXml == InitXml /\ [][NextXml]_vars

-----------------------------------------------------------------------------
(* The round trip on its own: bounded objects and descriptors *)

\* the objects a reference B holds
BObjects ==
    {EmptyObj, ObjPut(EmptyObj, "y", Str("2")), ObjPut(EmptyObj, "y", Str("a&b"))}

\* the fields of the root object: an attribute x, a reference B or both
RootObjects ==
    {EmptyObj, ObjPut(EmptyObj, "x", Str("1"))}
    \cup {ObjPut(r, "B", b) : r \in {EmptyObj, ObjPut(EmptyObj, "x", Str("1"))},
                              b \in BObjects \cup {List(l) : l \in SeqsUpTo(BObjects, MaxOccurs)}}

Objects == {ObjPut(EmptyObj, "A", r) : r \in RootObjects}

\* the descriptors of the root: B undeclared, a single reference or a container
TripClasses ==
    {ObjClass("A", NoFields)}
    \cup {ObjClass("A", "B" :> RefEntry("B", ObjClass("B", NoFields), ic)) : ic \in BOOLEAN}

XmlRoundTrip ==
    /\ ~trip.done
    /\ \E t \in {xmlTrip(tripObj, obj_class)} : trip' = t
    /\ UNCHANGED <<schemaVars, memberVars, versionVars, xmlVars, tripObj, structVars, walkVars, ranges, log>>

JsonRoundTrip ==
    /\ ~trip.done
    /\ \E t \in {jsonTrip(tripObj, obj_class)} : trip' = t
    /\ UNCHANGED <<schemaVars, memberVars, versionVars, xmlVars, tripObj, structVars, walkVars, ranges, log>>

StructRoundTrip ==
    /\ ~trip.done
    /\ \E t \in {structTrip(tripObj, obj_class)} : trip' = t
    /\ UNCHANGED <<schemaVars, memberVars, versionVars, xmlVars, tripObj, structVars, walkVars, ranges, log>>

InitRoundTrip ==
    /\ SchemaIdle
    /\ MemberIdle
    /\ VersionIdle
    /\ xml = <<>>
    /\ xmlResult = NoResult
    /\ tripObj \in Objects
    /\ obj_class \in TripClasses
    /\ trip = NoTrip
    /\ BinaryTypeIdle
    /\ StructTypeIdle
    /\ WalkIdle
    /\ RangeIdle
    /\ LogIdle

NextRoundTrip == XmlRoundTrip \/ JsonRoundTrip \/ StructRoundTrip

SpecRoundTrip == InitRoundTrip /\ [][NextRoundTrip]_vars

-----------------------------------------------------------------------------
(* getBinaryType and getStructType on their own *)

Categories == {"Integer", "Numeric", "Number", "Boolean", "Alpha", "Node"}
Sizes == {Undef, Num(1), Num(2), Num(3), Num(4), Num(8)}
Minimums == {Undef, Num(0), Num(-5)}

TypeDefs ==
    {catalog[t] : t \in DOMAIN catalog}
    \cup {TypeDef(c, sz, mn, Undefined) : c \in Categories, sz \in Sizes, mn \in Minimums}

GetBinaryType ==
    /\ ~codec.done
    /\ \E r \in {getBinaryType(type_def)} :
          codec' = [done |-> TRUE, ok |-> r.ok, codec |-> r.codec]
    /\ UNCHANGED <<schemaVars, memberVars, versionVars, xmlVars, tripVars,
                   type_def, struct_class, layout, walkVars, ranges, log>>

InitBinaryType ==
    /\ SchemaIdle
    /\ MemberIdle
    /\ VersionIdle
    /\ XmlIdle
    /\ TripIdle
    /\ StructTypeIdle
    /\ WalkIdle
    /\ RangeIdle
    /\ LogIdle
    /\ type_def \in TypeDefs
    /\ codec = NoCodec

NextBinaryType == GetBinaryType

SpecBinaryType == InitBinaryType /\ [][NextBinaryType]_vars

\* the classes references point to
LegClass == StructClass("Leg", <<<<"p", catalog.uint8>>>>, <<>>)
ItemClass == StructClass("Item", <<<<"q", catalog.double>>>>, <<>>)

\* ref entries: with the name of their key, with no name, with another name
RefEntries(k, class) ==
    {<<k, RefEntry(n, class, ic)>> : n \in {k, Undefined, "Other"}, ic \in BOOLEAN}

AttrLists ==
    {SubSeq(<<<<"a", catalog.int32>>, <<"b", catalog.string>>,
              <<"c", TypeDef("Integer", Num(2), Num(0), Undefined)>>>>, 1, n) :
        n \in 0..MaxAttrs}

RefLists ==
    {<<>>}
    \cup {<<e>> : e \in RefEntries("Leg", LegClass)}
    \cup {<<e, f>> : e \in RefEntries("Leg", LegClass), f \in RefEntries("Item", ItemClass)}

StructClasses == {StructClass("Order", as, rs) : as \in AttrLists, rs \in RefLists}

GetStructType ==
    /\ ~layout.done
    /\ \E r \in {getStructType(struct_class)} :
          layout' = [done |-> TRUE, ok |-> r.ok, fields |-> r.fields]
    /\ UNCHANGED <<schemaVars, memberVars, versionVars, xmlVars, tripVars,
                   type_def, codec, struct_class, walkVars, ranges, log>>

InitStructType ==
    /\ SchemaIdle
    /\ MemberIdle
    /\ VersionIdle
    /\ XmlIdle
    /\ TripIdle
    /\ BinaryTypeIdle
    /\ WalkIdle
    /\ RangeIdle
    /\ LogIdle
    /\ struct_class \in StructClasses
    /\ layout = NoLayout

NextStructType == GetStructType

SpecStructType == InitStructType /\ [][NextStructType]_vars

-----------------------------------------------------------------------------
(* getStructType as steps over a heap of descriptors that refer to each other *)

ClassIds == 1..MaxClasses

\* the reference lists of a descriptor: entries r1, r2, .. named by their
\* keys, the first a single reference, the others containers
WalkRefs ==
    UNION {[1..n -> ClassIds] : n \in 0..MaxRefs}

WalkClass(attrs, targets) ==
    [_attrs |-> attrs,
     _refs |-> [i \in 1..Len(targets) |->
                  <<"r" \o ToString(i), RefEntry("r" \o ToString(i), targets[i], i > 1)>>],
     _struct |-> 0]

\* attributes: of the catalog, and one getBinaryType throws for
GoodAttrs == <<<<"a", catalog.int32>>>>
BadAttrs == <<<<"a", catalog.int32>>, <<"b", TypeDef("Integer", Num(3), Undef, Undefined)>>>>

Heaps ==
    {[classes |-> [c \in ClassIds |->
                     WalkClass(IF c = bad THEN BadAttrs ELSE GoodAttrs, targets[c])],
      objects |-> <<>>] :
        targets \in [ClassIds -> WalkRefs], bad \in {0, MaxClasses}}

\* a call of getStructType(c) from outside
CallGetStructType(c) ==
    /\ walk.stack = <<>>
    /\ walk.calls < MaxCalls
    /\ walk' = [walk EXCEPT !.stack = <<WalkFrame(c)>>, !.calls = @ + 1, !.err = "",
                         !.base = Len(heap.objects)]
    /\ UNCHANGED <<schemaVars, memberVars, versionVars, xmlVars, tripVars, structVars,
                   heap, ranges, log>>

\* lines 55-60 and 78: the test of _struct, the new layout, the attributes
EnterGetStructType ==
    /\ walk.stack # <<>>
    /\ LET top == walk.stack[Len(walk.stack)]
           below == SubSeq(walk.stack, 1, Len(walk.stack) - 1)
           c == top.class
       IN  /\ top.pc = "enter"
           /\ IF hasStruct(heap.classes, c)
              THEN \E d \in {Deliver(heap, walk, below, heap.classes[c]._struct)} :
                      heap' = d.heap /\ walk' = d.walk
              ELSE \E a \in {structAttrs(heap.classes[c]._attrs, 1, EmptyObj)} :
                   LET id == Len(heap.objects) + 1
                       stored == IF storesStruct("enter") THEN id ELSE 0
                   IN  /\ heap' = [classes |-> [heap.classes EXCEPT ![c]._struct = stored],
                                   objects |-> Append(heap.objects, a.fields)]
                       /\ walk' =
                            IF a.ok
                            THEN [walk EXCEPT
                                    !.stack[Len(walk.stack)] =
                                        [top EXCEPT !.pc = "refs", !.obj = id],
                                    !.expanded[c] = @ + 1]
                            ELSE [walk EXCEPT !.stack = <<>>, !.err = "Error",
                                              !.expanded[c] = @ + 1]
    /\ UNCHANGED <<schemaVars, memberVars, versionVars, xmlVars, tripVars, structVars,
                   ranges, log>>

\* line 64: the call of getStructType on the class of the next reference
VisitReference ==
    /\ walk.stack # <<>>
    /\ LET top == walk.stack[Len(walk.stack)]
           refs == heap.classes[top.class]._refs
       IN  /\ top.pc = "refs"
           /\ top.i <= Len(refs)
           /\ walk' = IF Len(walk.stack) >= StackLimit
                      THEN [walk EXCEPT !.stack = <<>>, !.err = "RangeError"]
                      ELSE [walk EXCEPT !.stack = Append(@, WalkFrame(refs[top.i][2].ref_class))]
    /\ UNCHANGED <<schemaVars, memberVars, versionVars, xmlVars, tripVars, structVars,
                   heap, ranges, log>>

\* line 78: the loops are over, the call returns obj_class._struct
ReturnLayout ==
    /\ walk.stack # <<>>
    /\ LET top == walk.stack[Len(walk.stack)]
           below == SubSeq(walk.stack, 1, Len(walk.stack) - 1)
           c == top.class
           stored == IF storesStruct("return") THEN top.obj ELSE heap.classes[c]._struct
           h == [heap EXCEPT !.classes[c]._struct = stored]
       IN  /\ top.pc = "refs"
           /\ top.i > Len(heap.classes[c]._refs)
           /\ \E d \in {Deliver(h, walk, below, stored)} :
                 heap' = d.heap /\ walk' = d.walk
    /\ UNCHANGED <<schemaVars, memberVars, versionVars, xmlVars, tripVars, structVars,
                   ranges, log>>

InitStructWalk ==
    /\ SchemaIdle
    /\ MemberIdle
    /\ VersionIdle
    /\ XmlIdle
    /\ TripIdle
    /\ BinaryTypeIdle
    /\ StructTypeIdle
    /\ RangeIdle
    /\ LogIdle
    /\ heap \in Heaps
    /\ walk = [NoWalk EXCEPT !.expanded = [c \in ClassIds |-> 0]]

NextStructWalk ==
    \/ \E c \in ClassIds : CallGetStructType(c)
    \/ EnterGetStructType
    \/ VisitReference
    \/ ReturnLayout

SpecStructWalk == InitStructWalk /\ [][NextStructWalk]_vars

-----------------------------------------------------------------------------
(* Two Range objects under add, subtract, combine, exclude, clear and same *)

\* the ends of the intervals handed to add and subtract; the values between
\* two neighbouring ends are sampled as well
Ends == {2 * k : k \in 0..MaxPoint}
Samples == 0..(2 * MaxPoint)

\* the state after a call on Range r that left objs and ints
AfterCall(r, res, call, plain) ==
    LET c == Collect(res.objs, [ranges.intervals EXCEPT ![r] = res.intervals])
    IN  [objs |-> c.objs, intervals |-> c.intervals,
         last |-> [call EXCEPT !.on = r, !.threw = ~res.ok,
                               !.was = {x \in Samples :
                                          inRange(ranges.objs, ranges.intervals[r], x)}],
         ops |-> ranges.ops + 1, plain |-> ranges.plain /\ plain]

RangeAdd(r, a, b) ==
    /\ ranges.ops < MaxOps
    /\ \E res \in {addArray(ranges.objs, ranges.intervals[r], a, b)} :
          ranges' = AfterCall(r, res, [NoCall EXCEPT !.op = "add", !.a = a, !.b = b], TRUE)
    /\ UNCHANGED <<schemaVars, memberVars, versionVars, xmlVars, tripVars, structVars,
                   walkVars, log>>

RangeSubtract(r, a, b) ==
    /\ ranges.ops < MaxOps
    /\ \E res \in {subtract(ranges.objs, ranges.intervals[r], a, b)} :
          ranges' = AfterCall(r, res, [NoCall EXCEPT !.op = "subtract", !.a = a, !.b = b],
                              TRUE)
    /\ UNCHANGED <<schemaVars, memberVars, versionVars, xmlVars, tripVars, structVars,
                   walkVars, log>>

RangeCombine(r) ==
    /\ ranges.ops < MaxOps
    /\ \E res \in {combine(ranges.objs, ranges.intervals[r], ranges.intervals[3 - r])} :
          ranges' = AfterCall(r, res, [NoCall EXCEPT !.op = "combine"], FALSE)
    /\ UNCHANGED <<schemaVars, memberVars, versionVars, xmlVars, tripVars, structVars,
                   walkVars, log>>

RangeExclude(r) ==
    /\ ranges.ops < MaxOps
    /\ \E res \in {exclude(ranges.objs, ranges.intervals[r], ranges.intervals[3 - r])} :
          ranges' = AfterCall(r, res, [NoCall EXCEPT !.op = "exclude"], FALSE)
    /\ UNCHANGED <<schemaVars, memberVars, versionVars, xmlVars, tripVars, structVars,
                   walkVars, log>>

RangeClear(r) ==
    /\ ranges.ops < MaxOps
    /\ ranges' = AfterCall(r, Done(ranges.objs, <<>>), [NoCall EXCEPT !.op = "clear"], TRUE)
    /\ UNCHANGED <<schemaVars, memberVars, versionVars, xmlVars, tripVars, structVars,
                   walkVars, log>>

RangeSame(r) ==
    /\ ranges.last.op # "same"
    /\ ranges' = [ranges EXCEPT !.last =
                    [NoCall EXCEPT !.op = "same", !.on = r,
                                   !.result = same(ranges.objs, ranges.intervals[r],
                                                   ranges.intervals[3 - r])]]
    /\ UNCHANGED <<schemaVars, memberVars, versionVars, xmlVars, tripVars, structVars,
                   walkVars, log>>

InitRange ==
    /\ SchemaIdle
    /\ MemberIdle
    /\ VersionIdle
    /\ XmlIdle
    /\ TripIdle
    /\ BinaryTypeIdle
    /\ StructTypeIdle
    /\ WalkIdle
    /\ LogIdle
    /\ ranges = [NoRanges EXCEPT !.intervals = <<<<>>, <<>>>>]

NextRange ==
    \/ \E r \in 1..2, a, b \in Ends : a <= b /\ RangeAdd(r, a, b)
    \/ \E r \in 1..2, a, b \in Ends : a <= b /\ RangeSubtract(r, a, b)
    \/ \E r \in 1..2 : RangeCombine(r)
    \/ \E r \in 1..2 : RangeExclude(r)
    \/ \E r \in 1..2 : RangeClear(r)
    \/ \E r \in 1..2 : RangeSame(r)

SpecRange == InitRange /\ [][NextRange]_vars

-----------------------------------------------------------------------------
(* One Log instance: logging calls, write callbacks, shutdown *)

LogCall(type, cb) ==
    /\ Len(log.fate) < MaxLogCalls
    /\ log' = _log(log, type, cb)
    /\ UNCHANGED <<schemaVars, memberVars, versionVars, xmlVars, tripVars, structVars,
                   walkVars, ranges>>

WriteDone(ok) ==
    /\ log.writes # <<>>
    /\ log' = written(log, ok)
    /\ UNCHANGED <<schemaVars, memberVars, versionVars, xmlVars, tripVars, structVars,
                   walkVars, ranges>>

LogShutdown(cb) ==
    /\ log.shutdowns < MaxShutdowns
    /\ log' = shutdown(log, cb)
    /\ UNCHANGED <<schemaVars, memberVars, versionVars, xmlVars, tripVars, structVars,
                   walkVars, ranges>>

EndDone ==
    /\ log.ending.active
    /\ log.writes = <<>>
    /\ log' = ended(log)
    /\ UNCHANGED <<schemaVars, memberVars, versionVars, xmlVars, tripVars, structVars,
                   walkVars, ranges>>

RunImmediate ==
    /\ log.immediates # <<>>
    /\ log' = immediate(log)
    /\ UNCHANGED <<schemaVars, memberVars, versionVars, xmlVars, tripVars, structVars,
                   walkVars, ranges>>

InitLog ==
    /\ SchemaIdle
    /\ MemberIdle
    /\ VersionIdle
    /\ XmlIdle
    /\ TripIdle
    /\ BinaryTypeIdle
    /\ StructTypeIdle
    /\ WalkIdle
    /\ RangeIdle
    /\ log = NewLog

NextLog ==
    \/ \E type \in {eventType.err, eventType.info, eventType.trace}, cb \in BOOLEAN :
          LogCall(type, cb)
    \/ \E ok \in BOOLEAN : WriteDone(ok)
    \/ \E cb \in BOOLEAN : LogShutdown(cb)
    \/ EndDone
    \/ RunImmediate

SpecLog == InitLog /\ [][NextLog]_vars

-----------------------------------------------------------------------------
(* Helpers of the properties *)

RECURSIVE Subtree(_)
\* a constructed member and all its descendants
Subtree(m) == {m} \cup UNION {Subtree(m.members[i]) : i \in 1..Len(m.members)}

DocMembers(schema) == UNION {Subtree(schema.members[i]) : i \in 1..Len(schema.members)}

RECURSIVE ReachN(_, _, _)
\* the names reached from the set S in at most n further steps through
\* registered documents, following the dependencies each document's init resolved
ReachN(docs, S, n) ==
    IF n = 0 THEN S
    ELSE ReachN(docs,
                S \cup UNION {SeqSet(docs[x].declared) : x \in S \cap DOMAIN docs},
                n - 1)

Reachable(docs, d) == ReachN(docs, SeqSet(docs[d].declared), Cardinality(Docs))

-----------------------------------------------------------------------------
(* Properties of the registry (specification Spec) *)

C2_LoadRecursionTerminates ==
    /\ \A k \in 1..Len(stack) : stack[k].err # "RangeError"
    /\ \A k \in 1..Len(hist) : hist[k].err # "RangeError"

\* C3: when Schema.prototype.load(D) raises (missing file, unsupported
\* version, a Member validation error in D or in a dependency), D is not in
\* Schema.documents and every document registered before the call is still
\* registered with the same members and the same dependency list.
C3_FailedLoadLeavesRegistry ==
    \A k \in 1..Len(stack) :
        (stack[k].pc = "raise" /\ stack[k].err # "duplicate") =>
            /\ stack[k].doc \notin Registered
            /\ \A d \in DOMAIN stack[k].before :
                  d \in Registered /\ documents[d] = stack[k].before[d]

\* a load that raises after its init built the members, because a dependency
\* failed its Member validation, with documents registered before the call
C3_Witness ==
    /\ stack # <<>>
    /\ Top.pc = "raise"
    /\ Top.err = "missing type"
    /\ Len(Top.this.members) > 0
    /\ DOMAIN Top.before # {}

\* C4 (as stated): a second Schema.load of any document path fails.
C4_SecondLoadAlwaysFails ==
    \A i, j \in 1..Len(hist) :
        (i < j /\ hist[i].root = hist[j].root) => hist[j].result = "raised"

\* C4: loading a name that is registered raises the duplicate-document error
\* and leaves the registered instance in place; so a second Schema.load of a
\* path fails whenever the first one registered the document.
C4_RegisteredLoadFails ==
    /\ \A k \in 1..Len(hist) :
          hist[k].root \in DOMAIN hist[k].before =>
              /\ hist[k].result = "raised"
              /\ hist[k].err = "duplicate"
              /\ hist[k].after = hist[k].before
    /\ \A i, j \in 1..Len(hist) :
          (i < j /\ hist[i].root = hist[j].root /\ hist[i].root \in DOMAIN hist[i].after)
              => (hist[j].result = "raised" /\ hist[j].err = "duplicate")
    /\ \A k \in 1..Len(stack) :
          (stack[k].pc # "load" /\ stack[k].doc \in DOMAIN stack[k].before)
              => (stack[k].pc = "raise" /\ stack[k].err = "duplicate")

\* a second Schema.load of a document the first load registered
C4_Witness ==
    \E i, j \in 1..Len(hist) :
        /\ i < j
        /\ hist[i].root = hist[j].root
        /\ hist[i].result = "returned"
        /\ hist[j].err = "duplicate"

\* C5: every document in Schema.documents has completed init, at every point
\* of a recursive load: a document is in the table only after its own init
\* has returned.
C5_RegisteredAreInitialised ==
    /\ \A d \in Registered :
          /\ documents[d].inited
          /\ Len(documents[d].members) = Len(fs[d].members)
    /\ \A k \in 1..Len(stack) :
          stack[k].pc = "deps" => stack[k].doc \notin Registered

\* the middle of a recursive load: the root is loading its dependencies and
\* one of them is already registered
C5_Witness ==
    /\ Len(stack) = 1
    /\ Top.pc = "deps"
    /\ Top.i > 1
    /\ Top.this.dependencies[Top.i - 1] \in Registered

\* C6: after a successful load, findMember(n) returns M for every member M of
\* the tree whose full name is n, top-level members included, and undefined
\* for every other name.
C6_FindMemberFindsEveryMember ==
    \A d \in Registered :
        /\ \A m \in DocMembers(documents[d]) :
              /\ findMember(documents[d], m.fullName) # NotFound
              /\ findMember(documents[d], m.fullName).path = m.path
        /\ \A n \in {"Point", "x", "Point::z", "Point::x::y"} :
              (\A m \in DocMembers(documents[d]) : m.fullName # n)
                  => findMember(documents[d], n) = NotFound

\* C10: the dependency list init resolves for a document does not hold the
\* document's own file, holds no file that fails isValidDocument, and holds
\* each file once.
C10_ResolvedDependencies ==
    \A k \in 1..Len(stack) :
        stack[k].pc = "deps" =>
            LET deps == stack[k].this.dependencies IN
            /\ stack[k].doc \notin SeqSet(deps)
            /\ \A i \in 1..Len(deps) : isValidDocument(fs, deps[i])
            /\ \A i, j \in 1..Len(deps) : i # j => deps[i] # deps[j]

-----------------------------------------------------------------------------
(* Properties of the Member constructor (specification SpecMember) *)

SiblingsDistinct(ms) ==
    \A i, j \in 1..Len(ms) : i # j => ms[i].fullName # ms[j].fullName

\* C7: no Member tree is produced in which two siblings have the same
\* fully-qualified name: such a raw record fails construction.
C7_NoDuplicateSiblings ==
    built.ok => \A m \in Subtree(built.m) : SiblingsDistinct(m.members)

\* C8: a constructed enum of numeric value type stores, for every value entry,
\* the entry's name with the numeric value of the input.
C8_EnumValuesStored ==
    (built.ok /\ raw.type = "enum" /\ isNumeric(built.m.value_type)) =>
        \A i \in 1..Len(raw.values) :
            built.m.values[i] = Entry(raw.values[i].name, ToNumber(raw.values[i].value))

MemberInvariant(m) ==
    /\ Truthy(m.type)
    /\ (m.type \notin {"struct", "union"} => Truthy(m.name))
    /\ (m.type \in {"struct", "union"} => Len(m.members) > 0)
    /\ (m.type = "enum" => (Len(m.values) > 0 /\ isPrimitive(m.value_type)))
    /\ (m.type = "array" => m.value_type \in DOMAIN types)

\* C9: every constructed Member has a type, a non-empty name unless it is a
\* struct or union, at least one child if it is a struct or union, at least
\* one value and a primitive value type if it is an enum, and a catalogued
\* value type if it is an array.
C9_StructuralInvariants ==
    built.ok => \A m \in Subtree(built.m) : MemberInvariant(m)

\* C11 as stated: in a Schema.load that returned, Schema.prototype.load was
\* called at most once for every document, however many documents declare it.
C11_EachDependencyLoadedOnce ==
    outcome = "returned" => \A d \in Docs : loadCalls[d] <= 1

\* C11: during one Schema.load, Schema.prototype.load is called at most once
\* for a document that is in the registry: a registered dependency is never
\* loaded again, however many documents declare it.
C11_RegisteredLoadedOnce ==
    \A d \in Registered : loadCalls[d] <= 1

\* two documents declare a registered dependency and the load has returned
C11_Witness ==
    /\ outcome = "returned"
    /\ \E d \in Registered :
          /\ loadCalls[d] = 1
          /\ d # SchemaFile
          /\ \E x, y \in Registered :
                x # y /\ d \in SeqSet(documents[x].declared)
                      /\ d \in SeqSet(documents[y].declared)

\* C12: every registered document has at least one top-level member, and a
\* load that returned for a document without members did not add it.
C12_RegisteredHaveMembers ==
    /\ \A d \in Registered : Len(documents[d].members) > 0
    /\ \A k \in 1..Len(hist) :
          (hist[k].result = "returned" /\ fs[hist[k].root].members = <<>>) =>
              hist[k].root \notin DOMAIN hist[k].after

\* a load of a parsed document without members has returned
C12_Witness ==
    /\ outcome = "returned"
    /\ fs[SchemaFile].kind = "json"
    /\ fs[SchemaFile].members = <<>>
    /\ SchemaFile \notin Registered

-----------------------------------------------------------------------------
(* Properties of the version check (specification SpecVersion) *)

\* the components of a version string spell numbers
AllNumeric(v) == \A i \in 1..Len(v.parts) : v.parts[i].s \in DOMAIN NumericStrings

\* the number a component of a version string spells
PartNumber(v, i) == NumericStrings[v.parts[i].s]

\* C13: a version string of two or more numeric components is accepted iff
\* its major is 1 and its minor is at most 0, whatever the revision ("1.0.0"
\* and "1.0.99" accepted, "1.1.0" and "2.0.0" rejected); a missing version, a
\* version with a non-numeric component and a version of one component are
\* rejected; init of a document with a rejected version fails.
C13_VersionCheck ==
    verdict.done =>
        /\ (version.isString /\ AllNumeric(version) /\ Len(version.parts) >= 2) =>
              (verdict.valid <=> (PartNumber(version, 1) = 1 /\ PartNumber(version, 2) <= 0))
        /\ version = VersionString(<<"1", "0", "0">>) => verdict.valid
        /\ version = VersionString(<<"1", "0", "99">>) => verdict.valid
        /\ version = VersionString(<<"1", "1", "0">>) => ~verdict.valid
        /\ version = VersionString(<<"2", "0", "0">>) => ~verdict.valid
        /\ version = NoVersion => ~verdict.valid
        /\ (version.isString /\ ~AllNumeric(version)) => ~verdict.valid
        /\ Len(version.parts) = 1 => ~verdict.valid
        /\ ~verdict.valid => ~verdict.init

\* "1.0.99" has been checked and a document with it initialised
C13_Witness ==
    /\ verdict.done
    /\ version = VersionString(<<"1", "0", "99">>)
    /\ verdict.valid
    /\ verdict.init

-----------------------------------------------------------------------------
(* Properties of the templates (specification SpecMember) *)

RECURSIVE RawAt(_, _)
\* the raw record at a path of member indexes below data
RawAt(data, path) ==
    IF path = <<>> THEN data ELSE RawAt(data.members[Head(path) + 1], Tail(path))

RECURSIVE NearestDeclared(_, _)
\* the template declared by the record at the path or, failing that, by its
\* nearest ancestor that declares one; Undefined when none does
NearestDeclared(data, path) ==
    IF RawAt(data, path).template # Undefined THEN RawAt(data, path).template
    ELSE IF path = <<>> THEN Undefined
    ELSE NearestDeclared(data, SubSeq(path, 1, Len(path) - 1))

\* C14: the template of a constructed member is the one it declares, else
\* the one its nearest declaring ancestor declares, else the document's
\* default template for the member's own type.
C14_ResolvedTemplate ==
    built.ok =>
        \A m \in Subtree(built.m) :
            LET below == Tail(m.path)
                declared == NearestDeclared(raw, below)
            IN  m.template = IF declared # Undefined THEN declared
                             ELSE schemaTemplate(m.type)

-----------------------------------------------------------------------------
(* Properties of parse (specification SpecMember) *)

RECURSIVE PreOrder(_, _)
RECURSIVE PreOrderEach(_, _, _)
\* the members of the subtree of m in depth-first pre-order, each with its
\* distance from m added to level
PreOrder(m, level) ==
    <<[member |-> m.path, level |-> level]>> \o PreOrderEach(m.members, 1, level + 1)

PreOrderEach(ms, i, level) ==
    IF i > Len(ms) THEN <<>>
    ELSE PreOrder(ms[i], level) \o PreOrderEach(ms, i + 1, level)

\* C15: parse(d, visitor) on a constructed tree completes without error and
\* calls visitor once per member of the subtree in depth-first pre-order,
\* with d plus the member's distance from the starting member.
C15_ParseVisitsPreOrder ==
    parsed.done => /\ parsed.ok
                   /\ parsed.calls = PreOrder(built.m, parsed.level)

-----------------------------------------------------------------------------
(* Properties of toObj (specification SpecXml) *)

\* C16: toObj fails, and yields no object, whenever the name of the root
\* element differs from the _name of the descriptor in use (xmlResult.name
\* is that _name as it was when toObj was called).
C16_WrongRootFails ==
    (xmlResult.done /\ xmlResult.name # Undefined /\ xml[1].name # xmlResult.name)
        => ~xmlResult.ok

EmptyClass == ObjClass(Undefined, NoFields)

\* the children of an element that carry the name k, in document order
Named(children, k) == SelectSeq(children, LAMBDA c : c.name = k)

\* the names of the children in the order of their first occurrence
RECURSIVE FirstNames(_, _, _)
FirstNames(children, i, acc) ==
    IF i > Len(children) THEN acc
    ELSE FirstNames(children, i + 1,
            IF \E j \in 1..Len(acc) : acc[j] = children[i].name THEN acc
            ELSE Append(acc, children[i].name))

RECURSIVE Lower(_, _)
RECURSIVE LowerNames(_, _, _, _, _)
\* the fields of the children of node, one per child name: a single value
\* for a name that occurs once and is no container of the class, a list
\* with one entry per occurrence otherwise
LowerNames(node, class, names, i, acc) ==
    IF i > Len(names) THEN acc
    ELSE LET k == names[i]
             occ == Named(node.children, k)
             declared == k \in DOMAIN class._refs
             sub == IF declared THEN class._refs[k].ref_class ELSE EmptyClass
             each == [j \in 1..Len(occ) |-> Lower(occ[j], sub)]
         IN  LowerNames(node, class, names, i + 1,
                ObjPut(acc, k,
                       IF Len(occ) = 1 /\ ~(declared /\ class._refs[k].is_container)
                       THEN each[1] ELSE List(each)))

\* the object an element is lowered to under a class
Lower(node, class) ==
    IF node.attrs = EmptyObj /\ node.children = <<>> THEN Str(node.text)
    ELSE LowerNames(node, class, FirstNames(node.children, 1, <<>>), 1,
                    addAttrs(EmptyObj, node.attrs, 1))

\* C17: toObj of a text whose root carries the name of the descriptor lowers
\* every element at every depth by that rule (the converter of the schema
\* package returns the root under its name, xml.js the root itself).
C17_ChildrenLowered ==
    (xmlResult.done /\ obj_class.given /\ xml[1].name = xmlResult.name) =>
        /\ xmlResult.ok
        /\ xmlResult.v = IF xmlResult.by = "converter"
                         THEN ObjPut(EmptyObj, xml[1].name, Lower(xml[1], obj_class))
                         ELSE Lower(xml[1], obj_class)

-----------------------------------------------------------------------------
(* Properties of the round trip (specification SpecRoundTrip) *)

\* C18: for each converter, whenever fromObj(o, C) yields a text,
\* fromObj(toObj(fromObj(o, C), C), C) yields the same text.
C18_RoundTripStable ==
    (trip.done /\ trip.firstOk) => (trip.secondOk /\ trip.second = trip.first)

-----------------------------------------------------------------------------
(* Properties of the struct converter (SpecBinaryType, SpecStructType) *)

\* the type definition is unsigned: a minimum of 0 or more is declared
Unsigned(td) == td.min.kind = "num" /\ td.min.n >= 0

\* the codec the table gives a type definition, Undef for one not in it
TableCodec(td) ==
    CASE td.type = "Integer" /\ td.size \in {Num(1), Num(2), Num(4), Num(8)} ->
            Codec((IF Unsigned(td) THEN "uint" ELSE "int") \o ToString(8 * td.size.n))
      [] td.type = "Numeric" /\ td.size = Num(4) -> Codec("float")
      [] td.type = "Numeric" /\ td.size = Num(8) -> Codec("double")
      [] OTHER -> Undef

\* the category or the size of the type definition is not in the table
NotInTable(td) ==
    \/ td.type \notin {"Integer", "Numeric", "Boolean", "Alpha"}
    \/ td.type = "Integer" /\ td.size \notin {Undef, Num(1), Num(2), Num(4), Num(8)}
    \/ td.type = "Numeric" /\ td.size \notin {Num(4), Num(8)}

\* C19: getBinaryType returns the codec of every combination of the table
\* (Integer of size 1, 2, 4, 8, unsigned iff a minimum >= 0 is declared;
\* Numeric of size 4, 8; Boolean; Alpha), raises an error for every other
\* category or size, and never returns without a codec.
C19_GetBinaryTypeTotal ==
    codec.done =>
        /\ TableCodec(type_def) # Undef =>
              (codec.ok /\ codec.codec = TableCodec(type_def))
        /\ type_def.type \in {"Boolean", "Alpha"} =>
              (codec.ok /\ codec.codec # Undef)
        /\ NotInTable(type_def) => ~codec.ok
        /\ codec.ok => codec.codec # Undef

\* the field of one reference: the layout of the referenced class, as an
\* array with a 4-byte count when the reference is a container
RECURSIVE ClaimedLayout(_)
RECURSIVE ClaimedFields(_, _, _, _)
ClaimedFields(class, entries, i, fields) ==
    IF i > Len(entries) THEN fields
    ELSE LET k == entries[i][1]
             e == entries[i][2]
             attr == i <= Len(class._attrs)
             field == IF attr THEN getBinaryType(e).codec
                      ELSE IF e.is_container THEN ArrayOf(ClaimedLayout(e.ref_class))
                      ELSE ClaimedLayout(e.ref_class)
         IN  ClaimedFields(class, entries, i + 1, ObjPut(fields, k, field))

\* one field per entry of _attrs and then of _refs, under the entry's key
ClaimedLayout(class) ==
    ClaimedFields(class, class._attrs \o class._refs, 1, EmptyObj)

\* C20: the layout of a descriptor has one field per attribute and one per
\* reference, keyed by the attribute/reference name, attributes first, each
\* group in declared order, with the fields the claim gives them.
C20_LayoutFields ==
    layout.done => (layout.ok /\ layout.fields = ClaimedLayout(struct_class))

-----------------------------------------------------------------------------
(* The order of registration (specification Spec) *)

\* the position of a registered name in the insertion order of the table
OrderIndex(ord, d) == CHOOSE i \in 1..Len(ord) : ord[i] = d

\* the dependencies a document declares in its file that are valid schema
\* documents with at least one top-level member, the document itself apart
DeclaredWithMembers(files, d) ==
    {dep \in SeqSet(files[d].deps) \ {d} :
        isValidDocument(files, dep) /\ files[dep].members # <<>>}

\* C28 (as stated): at the moment a document D is added to Schema.documents,
\* every direct dependency of D that has at least one top-level member is
\* already in Schema.documents; the root is the last document registered.
C28_DependenciesFirst ==
    [][\A D \in (DOMAIN documents') \ DOMAIN documents :
          /\ DeclaredWithMembers(fs', D) \subseteq DOMAIN documents
          /\ D = SchemaFile => order'[Len(order')] = D]_vars

\* C28: at the moment a document D is added to Schema.documents, every entry
\* of the dependency list init resolved for D (which leaves out the root
\* document of the running Schema.load) that has at least one top-level
\* member is already in Schema.documents; the root is registered last.
C28_ResolvedDependenciesFirst ==
    [][\A D \in (DOMAIN documents') \ DOMAIN documents :
          /\ \A dep \in SeqSet(documents'[D].declared) :
                fs'[dep].members # <<>> => dep \in DOMAIN documents
          /\ D = SchemaFile => order'[Len(order')] = D]_vars

\* a load has returned with the root registered after a dependency of its
\* own that has members, which was itself registered after one of its own
C28_Witness ==
    /\ outcome = "returned"
    /\ SchemaFile \in Registered
    /\ \E dep \in SeqSet(documents[SchemaFile].declared) :
          /\ dep \in Registered
          /\ OrderIndex(order, dep) < OrderIndex(order, SchemaFile)
          /\ \E d2 \in SeqSet(documents[dep].declared) :
                /\ d2 \in Registered
                /\ OrderIndex(order, d2) < OrderIndex(order, dep)

-----------------------------------------------------------------------------
(* Properties of getStructType over the heap (specification SpecStructWalk) *)

\* C21: getStructType is memoized on the descriptor: any two calls with the
\* same descriptor return the identical layout object, and the second call
\* does not rebuild or modify the layout.
C21_Memoized ==
    \A i, j \in 1..Len(walk.returned) :
        (i < j /\ walk.returned[i].class = walk.returned[j].class) =>
            /\ walk.returned[j].layout = walk.returned[i].layout
            /\ walk.returned[j].fields = walk.returned[i].fields
            /\ walk.returned[j].allocated = 0

\* two outermost calls with the same descriptor have returned
C21_Witness ==
    /\ Len(walk.returned) = 2
    /\ walk.returned[1].class = walk.returned[2].class
    /\ heap.classes[walk.returned[1].class]._refs # <<>>

\* C30: getStructType terminates for every finite set of descriptors, cyclic
\* _refs included: the recursion never runs out of stack, the calls in
\* progress are of distinct descriptors being expanded, and each descriptor
\* is expanded at most once.
C30_TerminatesOnCycles ==
    /\ walk.err # "RangeError"
    /\ \A c \in DOMAIN walk.expanded : walk.expanded[c] <= 1
    /\ Len(walk.stack) <= MaxClasses + 1

\* a call has returned for a class that refers to itself and, through
\* another class, back to itself; the layouts refer to each other likewise
C30_Witness ==
    /\ walk.returned # <<>>
    /\ LET c == walk.returned[1].class
           refs == heap.classes[c]._refs
       IN  /\ Len(refs) = 2
           /\ refs[1][2].ref_class = c
           /\ refs[2][2].ref_class # c
           /\ \E i \in 1..Len(heap.classes[refs[2][2].ref_class]._refs) :
                 heap.classes[refs[2][2].ref_class]._refs[i][2].ref_class = c
           /\ walk.returned[1].allocated = MaxClasses
           /\ ObjHas(walk.returned[1].fields, "r1")
           /\ walk.returned[1].fields.val["r1"] = LayoutRef(walk.returned[1].layout)
           /\ walk.stack = <<>>

-----------------------------------------------------------------------------
(* Properties of Range (specification SpecRange) *)

\* the intervals of Range r are non-overlapping and ordered
Ordered(objs, ints) ==
    /\ \A i \in 1..Len(ints) : from(objs, ints, i) < to(objs, ints, i)
    /\ \A i \in 1..(Len(ints) - 1) : to(objs, ints, i) < from(objs, ints, i + 1)

\* C22: after any sequence of add, subtract, combine, exclude and clear on a
\* Range, every interval has from < to and consecutive intervals satisfy
\* to(i) < from(i+1).
C22_IntervalsOrdered ==
    \A r \in 1..Len(ranges.intervals) : Ordered(ranges.objs, ranges.intervals[r])

\* the step was the call op on Range r, and it returned
Called(op, r) ==
    /\ ranges'.ops = ranges.ops + 1
    /\ ranges'.last.op = op
    /\ ranges'.last.on = r
    /\ ~ranges'.last.threw

\* C23: add is set union: after add([a, b]) with a < b a value x is in
\* range iff it was in range before or a <= x <= b.
C23_AddIsUnion ==
    [][\A r \in 1..2 :
          (Called("add", r) /\ ranges'.last.a < ranges'.last.b) =>
             \A x \in Samples :
                inRange(ranges'.objs, ranges'.intervals[r], x)
                   <=> (\/ inRange(ranges.objs, ranges.intervals[r], x)
                        \/ ranges'.last.a <= x /\ x <= ranges'.last.b)]_vars

Between(x) == x % 2 = 1

C25_SameIsSetEquality ==
    (ranges.last.op = "same" /\ ranges.plain) =>
        (ranges.last.result <=>
            \A x \in Samples :
               inRange(ranges.objs, ranges.intervals[1], x)
                  <=> inRange(ranges.objs, ranges.intervals[2], x))

\* same has answered true for two ranges of two intervals each that took
\* four calls of add and subtract to build
C25_Witness ==
    /\ ranges.last.op = "same"
    /\ ranges.plain
    /\ ranges.last.result
    /\ Len(ranges.intervals[1]) = 2
    /\ ranges.ops > 3

\* C29: combine(other) and exclude(other) do not modify other, and no
\* interval object is shared between the two ranges afterwards, so that a
\* later add or subtract on the receiver does not change other either.
C29_OtherUntouched ==
    [][\A r \in 1..2 :
          (\E op \in {"combine", "exclude", "add", "subtract"} : Called(op, r)) =>
             /\ Len(ranges'.intervals[3 - r]) = Len(ranges.intervals[3 - r])
             /\ \A i \in 1..Len(ranges.intervals[3 - r]) :
                   ranges'.objs[ranges'.intervals[3 - r][i]]
                      = ranges.objs[ranges.intervals[3 - r][i]]
             /\ \A i \in 1..Len(ranges'.intervals[1]), j \in 1..Len(ranges'.intervals[2]) :
                   ranges'.intervals[1][i] # ranges'.intervals[2][j]]_vars

-----------------------------------------------------------------------------
(* Properties of Log (specification SpecLog) *)

\* the events 'busy' and 'idle' in the order they were emitted
BusyIdle == SelectSeq(log.emitted, LAMBDA e : e \in {"busy", "idle"})

\* every logging call made so far has been processed: written to the file or
\* ignored, and the callbacks handed to setImmediate have run
AllProcessed ==
    /\ log.fate # <<>>
    /\ \A i \in 1..Len(log.fate) : log.fate[i] \in {"written", "ignored"}
    /\ log.immediates = <<>>

\* C26: pendingEvents counts the logging calls not yet processed, and once
\* every logging call made so far has been processed (written to the file,
\* or ignored because its type is above the level) pendingEvents is 0 again
\* and 'idle' has been emitted after the last 'busy'.
C26_IdleWhenProcessed ==
    /\ (\A i \in 1..Len(log.fate) : log.fate[i] \in {"written", "ignored", "pending"}) =>
          log.pendingEvents = Cardinality({i \in 1..Len(log.fate) : log.fate[i] = "pending"})
    /\ AllProcessed =>
          /\ log.pendingEvents = 0
          /\ BusyIdle # <<>>
          /\ BusyIdle[Len(BusyIdle)] = "idle"

\* C27: after shutdown() every later logging call fails with the 'log has
\* been shutdown' error, passed to the callback when one is given and thrown
\* otherwise, and has no other effect: nothing is written, no 'busy' is
\* emitted and pendingEvents is unchanged; a second shutdown() still invokes
\* its callback.
C27_ShutdownRejectsCalls ==
    [][/\ (log'.last.op = "log" /\ Len(log'.fate) = Len(log.fate) + 1 /\ ~log.file) =>
             /\ log'.pendingEvents = log.pendingEvents
             /\ log'.emitted = log.emitted
             /\ log'.writes = log.writes
             /\ IF log'.last.cb
                THEN /\ log'.thrown = ""
                     /\ log'.immediates =
                           Append(log.immediates, Callback(Len(log'.fate), "shutdown"))
                ELSE /\ log'.thrown = "shutdown"
                     /\ log'.immediates = log.immediates
       /\ (log'.last.op = "shutdown" /\ log'.shutdowns = log.shutdowns + 1
              /\ ~log.file /\ log'.last.cb) =>
             log'.immediates = Append(log.immediates, Callback(0, ""))]_vars

====
